---------------------------- MODULE Spec2Model ----------------------------
(***************************************************************************)
(* Request-execution and resilience layer of the retailer scrapers:        *)
(*   - the checkpoint store (save_checkpoint / load_checkpoint, utils.py), *)
(*   - the plain retry executor (get_with_retry, utils.py),                *)
(*   - the proxy client (ProxyClient.get, proxy_client.py),                *)
(*   - the output writers (save_to_csv / save_to_json, utils.py),          *)
(*   - what the proxy client sends: the residential proxy URL and the      *)
(*     payload of a Web Scraper API request (proxy_client.py),             *)
(*   - the default proxy client of the module (get_proxy_client and the    *)
(*     functions built on it, utils.py),                                   *)
(*   - two processes that run save_checkpoint on one path (utils.py),      *)
(*   - the settings init_proxy_from_yaml hands to the client (utils.py,    *)
(*     ProxyConfig.from_dict in proxy_client.py).                          *)
(* Each part has its own specification; the variables of the other parts   *)
(* stay at their initial values.                                           *)
(***************************************************************************)
EXTENDS Integers, Sequences, FiniteSets, TLC

VARIABLES
    files,        \* the checkpoint directory: file name -> content (token sequence)
    savePc,       \* save_checkpoint: position of the writer process
    saveData,     \* save_checkpoint: the `data` argument of the running call
    saveTemp,     \* save_checkpoint: temp_path returned by mkstemp
    saveWritten,  \* save_checkpoint: number of chunks json.dump has written
    saveOutcome,  \* how the last save_checkpoint call ended
    startTarget,  \* history: content of the target at the last call start or rename
    lastSaved,    \* history: data of the last save whose rename happened
    crashes,      \* history: number of process deaths so far
    saveError,    \* save_checkpoint: the exception being handled or re-raised
    lastCleanup,  \* history: what the cleanup of the last failed call did
    unlinkFails,  \* history: number of failed deletions of a temp file so far
    loadPc,       \* load_checkpoint: position of the reader
    loadRead,     \* load_checkpoint: content handed to json.load
    loadResult,   \* load_checkpoint: the returned value
    loadExpect,   \* history: lastSaved at the moment the file was read
    gwrPc,        \* get_with_retry: position in the call
    gwrCfg,       \* get_with_retry: the arguments after defaulting
    gwrAttempt,   \* get_with_retry: the loop variable `attempt`
    gwrLog,       \* history: delays, requests and sleeps of the running call
    gwrResult,    \* get_with_retry: what the call returned
    gwrArgs,      \* history: the min_delay, max_delay and rate_limit_base_wait
                  \* the call was given
    pxPc,         \* ProxyClient: "none" (no client), "idle", "loop" (in get), "done"
    pxCfg,        \* ProxyClient.config
    pxSession,    \* ProxyClient._session: "none" or "open"
    pxCount,      \* ProxyClient._request_count
    pxCalls,      \* history: get calls made on this client
    pxAttempt,    \* ProxyClient.get: the loop variable `attempt`
    pxRequests,   \* history: transport requests issued by the running call
    pxThrottled,  \* history: 429 responses received by the running call
    pxLast,       \* history: the latest attempt of the running call
    pxResult,     \* ProxyClient.get: what the call returned
    pxGiven,      \* history: the config as it was handed to ProxyClient(config)
    pxProxies,    \* ProxyClient._session.proxies: "none" or "residential"
    pxPosted,     \* history: a POST of this client went to the scraping endpoint
    pxStats,      \* the dict the latest call of get_stats returned, if any
    pxApi,        \* history: the scraping endpoint's answer to the latest attempt
    outDirs,      \* output writers: the directories that exist
    outFiles,     \* output writers: file path -> content
    outLast,      \* history: the latest save_to_csv / save_to_json call
    urlConfig,    \* the config _build_residential_proxy_url last ran with
    proxy_url,    \* what it built: the username and the whole URL
    payloadCall,  \* the config and arguments of the latest API request
    payload,      \* the JSON payload that request posted
    environ,      \* os.environ: PROXY_MODE and the OXYLABS_ credentials
    clients,      \* the ProxyClient objects created so far, in order
    proxy_client, \* the module's _proxy_client: 0 for None, or a client's index
    wasDefault,   \* history: the clients that have been _proxy_client
    lastCall,     \* history: the latest call of a function of the module
    twFiles,      \* two writers: the checkpoint directory they share
    twPc,         \* two writers: writer -> position in save_checkpoint
    twTemp,       \* two writers: writer -> temp_path of its running call
    twWritten,    \* two writers: writer -> chunks json.dump has written
    twSaves,      \* two writers: writer -> calls of save_checkpoint so far
    twRenames,    \* history: the writers whose rename happened, in order
    yamlDoc,      \* settings: what the latest init_proxy_from_yaml found
    yamlDefault,  \* settings: the config of _proxy_client, if there is one
    yamlReturned  \* settings: the config of the client the call returned

ckptVars == <<files, savePc, saveData, saveTemp, saveWritten, saveOutcome,
              startTarget, lastSaved, crashes, saveError, lastCleanup,
              unlinkFails, loadPc, loadRead, loadResult, loadExpect>>

gwrVars == <<gwrPc, gwrCfg, gwrAttempt, gwrLog, gwrResult, gwrArgs>>

pxVars == <<pxPc, pxCfg, pxSession, pxCount, pxCalls, pxAttempt, pxRequests,
            pxThrottled, pxLast, pxResult, pxGiven, pxProxies, pxPosted, pxStats,
            pxApi>>

outVars == <<outDirs, outFiles, outLast>>

sendVars == <<urlConfig, proxy_url, payloadCall, payload>>

defaultVars == <<environ, clients, proxy_client, wasDefault, lastCall>>

twVars == <<twFiles, twPc, twTemp, twWritten, twSaves, twRenames>>

yamlVars == <<yamlDoc, yamlDefault, yamlReturned>>

vars ==
    <<ckptVars, gwrVars, pxVars, outVars, sendVars, defaultVars, twVars,
      yamlVars>>

\* what the operations of one part leave alone
nonCkptVars ==
    <<gwrVars, pxVars, outVars, sendVars, defaultVars, twVars,
      yamlVars>>
nonGwrVars ==
    <<ckptVars, pxVars, outVars, sendVars, defaultVars, twVars,
      yamlVars>>
nonPxVars ==
    <<ckptVars, gwrVars, outVars, sendVars, defaultVars, twVars,
      yamlVars>>
nonOutVars ==
    <<ckptVars, gwrVars, pxVars, sendVars, defaultVars, twVars,
      yamlVars>>
nonSendVars ==
    <<ckptVars, gwrVars, pxVars, outVars, defaultVars, twVars,
      yamlVars>>
nonDefaultVars ==
    <<ckptVars, gwrVars, pxVars, outVars, sendVars, twVars,
      yamlVars>>
nonTwVars ==
    <<ckptVars, gwrVars, pxVars, outVars, sendVars, defaultVars, yamlVars>>
nonYamlVars ==
    <<ckptVars, gwrVars, pxVars, outVars, sendVars, twVars,
      clients, proxy_client, wasDefault, lastCall>>

(***************************************************************************)
(* Bounds of the model.                                                    *)
(***************************************************************************)
MaxCrashes == 1
\* ProxyClient objects the module-level functions create
MaxClients == 2
\* calls of save_checkpoint by each of two concurrent writers
MaxSaves == 1
\* deletions of a temp file that fail
MaxUnlinkFails == 1
\* largest max_retries a caller passes
MaxRetries == 3
\* get calls made on one client before it is closed or replaced
MaxCalls == 2

(***************************************************************************)
(* Python values, as json sees them.                                       *)
(***************************************************************************)
PyVal(tag, str, num, items) == [t |-> tag, s |-> str, n |-> num, items |-> items]
PyNone == PyVal("None", "", 0, <<>>)
PyInt(i) == PyVal("int", "", i, <<>>)
PyStr(x) == PyVal("str", x, 0, <<>>)
PyList(xs) == PyVal("list", "", 0, xs)
PyTuple(xs) == PyVal("tuple", "", 0, xs)
\* a dict keeps its insertion order: items is key1, value1, key2, value2, ...
PyDict(kvs) == PyVal("dict", "", 0, kvs)
PySet(xs) == PyVal("set", "", 0, xs)

\* The progress blobs handed to save_checkpoint.
DataValues ==
    { PyList(<<PyInt(7)>>),
      PyDict(<<PyStr("k"), PyStr("a")>>),
      PyTuple(<<PyInt(7)>>),
      PyDict(<<PyInt(1), PyStr("a")>>),
      PyList(<<PySet(<<>>)>>) }

(***************************************************************************)
(* JSON text, as a sequence of lexical tokens (whitespace left out).       *)
(***************************************************************************)
Tok(kind, str, num) == [k |-> kind, s |-> str, n |-> num]
TNull == Tok("lit", "null", 0)
TNum(i) == Tok("num", "", i)
TStr(x) == Tok("str", x, 0)
TP(x) == Tok("punct", x, 0)

\* str(int) for the integers used as dict keys
IntText(i) ==
    CASE i = 0 -> "0" [] i = 1 -> "1" [] i = 2 -> "2" [] i = 3 -> "3"
      [] i = 4 -> "4" [] i = 5 -> "5" [] i = 6 -> "6" [] i = 7 -> "7"
      [] i = 8 -> "8" [] i = 9 -> "9" [] OTHER -> "int"

RECURSIVE JsonChunks(_)
RECURSIVE JsonItemChunks(_, _)
RECURSIVE JsonMemberChunks(_, _)

\* An encoding step result: the chunks produced, and whether the encoder
\* raised TypeError after producing them.
Enc(chunks, ok) == [toks |-> chunks, ok |-> ok]

\* json.dump -> JSONEncoder.iterencode: the chunks written for value v, in
\* order; a value json cannot serialise raises TypeError at its position,
\* after the chunks before it were written.
JsonChunks(v) ==
    CASE v.t = "None" -> Enc(<<TNull>>, TRUE)
      [] v.t = "int" -> Enc(<<TNum(v.n)>>, TRUE)
      [] v.t = "str" -> Enc(<<TStr(v.s)>>, TRUE)
      [] v.t \in {"list", "tuple"} ->
            IF v.items = <<>> THEN Enc(<<TP("["), TP("]")>>, TRUE)
            ELSE LET r == JsonItemChunks(v.items, TRUE)
                 IN  IF r.ok THEN Enc(<<TP("[")>> \o r.toks \o <<TP("]")>>, TRUE)
                     ELSE Enc(<<TP("[")>> \o r.toks, FALSE)
      [] v.t = "dict" ->
            IF v.items = <<>> THEN Enc(<<TP("{"), TP("}")>>, TRUE)
            ELSE LET r == JsonMemberChunks(v.items, TRUE)
                 IN  IF r.ok THEN Enc(<<TP("{")>> \o r.toks \o <<TP("}")>>, TRUE)
                     ELSE Enc(<<TP("{")>> \o r.toks, FALSE)
      [] OTHER -> Enc(<<>>, FALSE)

JsonItemChunks(xs, first) ==
    IF xs = <<>> THEN Enc(<<>>, TRUE)
    ELSE LET sep == IF first THEN <<>> ELSE <<TP(",")>>
             h == JsonChunks(Head(xs))
         IN  IF ~h.ok THEN Enc(sep \o h.toks, FALSE)
             ELSE LET r == JsonItemChunks(Tail(xs), FALSE)
                  IN  Enc(sep \o h.toks \o r.toks, r.ok)

\* dict keys: a str key is written as it is, an int key as str(key); any
\* other key type raises TypeError.
JsonMemberChunks(kvs, first) ==
    IF kvs = <<>> THEN Enc(<<>>, TRUE)
    ELSE LET sep == IF first THEN <<>> ELSE <<TP(",")>>
             key == kvs[1]
             val == kvs[2]
             rest == SubSeq(kvs, 3, Len(kvs))
         IN  IF key.t \notin {"str", "int"} THEN Enc(<<>>, FALSE)
             ELSE LET ktok == IF key.t = "str" THEN TStr(key.s)
                                               ELSE TStr(IntText(key.n))
                      h == JsonChunks(val)
                  IN  IF ~h.ok THEN Enc(sep \o <<ktok, TP(":")>> \o h.toks, FALSE)
                      ELSE LET r == JsonMemberChunks(rest, FALSE)
                           IN  Enc(sep \o <<ktok, TP(":")>> \o h.toks \o r.toks, r.ok)


(***************************************************************************)
(* json.load: a recursive-descent parse of the token sequence.  The whole  *)
(* text must be one JSON value; anything else is a JSONDecodeError.        *)
(***************************************************************************)
Parsed(v, rest) == [ok |-> TRUE, val |-> v, rest |-> rest]
ParseError == [ok |-> FALSE, val |-> PyNone, rest |-> <<>>]

\* dict construction while decoding: a repeated key keeps its first position
\* and takes the later value.
RECURSIVE DictPut(_, _, _)
DictPut(kvs, key, val) ==
    IF kvs = <<>> THEN <<key, val>>
    ELSE IF kvs[1] = key THEN <<key, val>> \o SubSeq(kvs, 3, Len(kvs))
    ELSE <<kvs[1], kvs[2]>> \o DictPut(SubSeq(kvs, 3, Len(kvs)), key, val)

RECURSIVE ParseValue(_)
RECURSIVE ParseItems(_, _)
RECURSIVE ParseMembers(_, _)

ParseValue(toks) ==
    IF toks = <<>> THEN ParseError
    ELSE LET h == Head(toks)
             r == Tail(toks)
         IN  CASE h = TNull -> Parsed(PyNone, r)
               [] h.k = "num" -> Parsed(PyInt(h.n), r)
               [] h.k = "str" -> Parsed(PyStr(h.s), r)
               [] h = TP("[") ->
                    IF r # <<>> /\ Head(r) = TP("]")
                    THEN Parsed(PyList(<<>>), Tail(r))
                    ELSE ParseItems(r, <<>>)
               [] h = TP("{") ->
                    IF r # <<>> /\ Head(r) = TP("}")
                    THEN Parsed(PyDict(<<>>), Tail(r))
                    ELSE ParseMembers(r, <<>>)
               [] OTHER -> ParseError

\* after "[" or ",": one value, then "," or "]"
ParseItems(toks, acc) ==
    LET v == ParseValue(toks)
    IN  IF ~v.ok \/ v.rest = <<>> THEN ParseError
        ELSE IF Head(v.rest) = TP("]")
             THEN Parsed(PyList(Append(acc, v.val)), Tail(v.rest))
        ELSE IF Head(v.rest) = TP(",")
             THEN ParseItems(Tail(v.rest), Append(acc, v.val))
        ELSE ParseError

\* after "{" or ",": a string key, ":", one value, then "," or "}"
ParseMembers(toks, acc) ==
    IF Len(toks) < 2 \/ toks[1].k # "str" \/ toks[2] # TP(":") THEN ParseError
    ELSE LET v == ParseValue(SubSeq(toks, 3, Len(toks)))
             kvs == DictPut(acc, PyStr(toks[1].s), v.val)
         IN  IF ~v.ok \/ v.rest = <<>> THEN ParseError
             ELSE IF Head(v.rest) = TP("}")
                  THEN Parsed(PyDict(kvs), Tail(v.rest))
             ELSE IF Head(v.rest) = TP(",")
                  THEN ParseMembers(Tail(v.rest), kvs)
             ELSE ParseError

\* json.load(f): the decoded value, or JSONDecodeError (ok = FALSE) when the
\* text is not exactly one JSON value.
JsonLoad(toks) ==
    LET p == ParseValue(toks)
    IN  IF p.ok /\ p.rest = <<>> THEN p ELSE ParseError


(***************************************************************************)
(* Options: an argument that may be None.                                  *)
(***************************************************************************)
None == [given |-> FALSE, v |-> 0]
Some(x) == [given |-> TRUE, v |-> x]
OrDefault(arg, default) == IF arg.given THEN arg.v ELSE default

Pow2(k) == 2 ^ k

(***************************************************************************)
(* The retry executor: get_with_retry(session, url, ...).                  *)
(***************************************************************************)
DEFAULT_MIN_DELAY == 2
DEFAULT_MAX_DELAY == 5
DEFAULT_MAX_RETRIES == 3
DEFAULT_RATE_LIMIT_BASE_WAIT == 30
BLOCKED_WAIT == 300
ERROR_WAIT == 10

\* status codes the server answers with
GwrStatuses == {200, 204, 301, 403, 404, 408, 429, 500, 503}

\* history events
Delay(d) == [e |-> "delay", v |-> d]
Request(status) == [e |-> "request", v |-> status]
\* a request that raised requests.exceptions.RequestException
RequestError == [e |-> "error", v |-> 0]
Sleep(t) == [e |-> "sleep", v |-> t]

Pending == [kind |-> "pending", status |-> 0]
Absent == [kind |-> "None", status |-> 0]
Response(status) == [kind |-> "response", status |-> status]

\* random.uniform(min_sec, max_sec): the values the model draws (and a
\* variant that draws beyond them)
DelaySamplesBeyond(lo, hi) == {lo, hi, lo + hi + 1}
DelaySamples(lo, hi) == {lo, hi}

\* random.uniform(a, b) returns a + (b - a) * random(): a value between a
\* and b, whichever of the two is the larger
Between(d, a, b) ==
    (IF a <= b THEN a ELSE b) <= d /\ d <= (IF a <= b THEN b ELSE a)

GwrInit ==
    /\ gwrPc = "idle"
    /\ gwrCfg = [max_retries |-> DEFAULT_MAX_RETRIES,
                 base_wait |-> DEFAULT_RATE_LIMIT_BASE_WAIT,
                 min_delay |-> DEFAULT_MIN_DELAY,
                 max_delay |-> DEFAULT_MAX_DELAY]
    /\ gwrAttempt = 0
    /\ gwrLog = <<>>
    /\ gwrResult = Pending
    /\ gwrArgs = <<None, None, None>>

\* for attempt in range(max_retries): is there another iteration?
GwrLoopOffByOne(attempt, max_retries) == attempt <= max_retries
GwrLoopContinues(attempt, max_retries) == attempt < max_retries

\* variants of the chain below: a 403 that is retried like a server error,
\* and a success test on the whole 2xx range
GwrClassifyRetry403(status, attempt, base_wait) ==
    IF status = 200 THEN [do |-> "return", wait |-> 0]
    ELSE IF status = 429 THEN [do |-> "retry", wait |-> Pow2(attempt) * base_wait]
    ELSE IF status = 403 THEN [do |-> "retry", wait |-> BLOCKED_WAIT]
    ELSE IF status >= 500 \/ status = 408 THEN [do |-> "retry", wait |-> ERROR_WAIT]
    ELSE [do |-> "abort", wait |-> 0]
GwrClassifyAny2xx(status, attempt, base_wait) ==
    IF 200 <= status /\ status < 300 THEN [do |-> "return", wait |-> 0]
    ELSE IF status = 429 THEN [do |-> "retry", wait |-> Pow2(attempt) * base_wait]
    ELSE IF status = 403 THEN [do |-> "abort", wait |-> BLOCKED_WAIT]
    ELSE IF status >= 500 \/ status = 408 THEN [do |-> "retry", wait |-> ERROR_WAIT]
    ELSE [do |-> "abort", wait |-> 0]

\* a further variant: a 429 wait that grows by the base each time
GwrClassifyLinear(status, attempt, base_wait) ==
    IF status = 200 THEN [do |-> "return", wait |-> 0]
    ELSE IF status = 429 THEN [do |-> "retry", wait |-> (attempt + 1) * base_wait]
    ELSE IF status = 403 THEN [do |-> "abort", wait |-> BLOCKED_WAIT]
    ELSE IF status >= 500 \/ status = 408 THEN [do |-> "retry", wait |-> ERROR_WAIT]
    ELSE [do |-> "abort", wait |-> 0]

\* a further variant: 408 handled as any other client error
GwrClassifyAbort408(status, attempt, base_wait) ==
    IF status = 200 THEN [do |-> "return", wait |-> 0]
    ELSE IF status = 429 THEN [do |-> "retry", wait |-> Pow2(attempt) * base_wait]
    ELSE IF status = 403 THEN [do |-> "abort", wait |-> BLOCKED_WAIT]
    ELSE IF status >= 500 THEN [do |-> "retry", wait |-> ERROR_WAIT]
    ELSE [do |-> "abort", wait |-> 0]

\* The if/elif chain on response.status_code: what the call does with a
\* response at loop index `attempt`.  do: "return" (the response), "abort"
\* (return None) or "retry" (next iteration); wait: seconds slept first,
\* 0 for no sleep.
GwrClassify(status, attempt, base_wait) ==
    IF status = 200 THEN [do |-> "return", wait |-> 0]
    ELSE IF status = 429 THEN [do |-> "retry", wait |-> Pow2(attempt) * base_wait]
    ELSE IF status = 403 THEN [do |-> "abort", wait |-> BLOCKED_WAIT]
    ELSE IF status >= 500 THEN [do |-> "retry", wait |-> ERROR_WAIT]
    ELSE IF status = 408 THEN [do |-> "retry", wait |-> ERROR_WAIT]
    ELSE IF 400 <= status /\ status < 500 THEN [do |-> "abort", wait |-> 0]
    ELSE [do |-> "abort", wait |-> 0]

\* the call: arguments that are None take the module defaults
GwrCall(max_retries, base_wait, min_delay, max_delay) ==
    /\ gwrPc \in {"idle", "done"}
    /\ gwrCfg' = [max_retries |-> OrDefault(max_retries, DEFAULT_MAX_RETRIES),
                  base_wait |-> OrDefault(base_wait, DEFAULT_RATE_LIMIT_BASE_WAIT),
                  min_delay |-> OrDefault(min_delay, DEFAULT_MIN_DELAY),
                  max_delay |-> OrDefault(max_delay, DEFAULT_MAX_DELAY)]
    /\ gwrAttempt' = 0
    /\ gwrLog' = <<>>
    /\ gwrResult' = Pending
    /\ gwrArgs' = <<min_delay, max_delay, base_wait>>
    /\ gwrPc' = "loop"
    /\ UNCHANGED nonGwrVars

\* loop head with an iteration left: random_delay(min_delay, max_delay)
GwrRandomDelay ==
    /\ gwrPc = "loop"
    /\ GwrLoopContinues(gwrAttempt, gwrCfg.max_retries)
    /\ \E d \in DelaySamples(gwrCfg.min_delay, gwrCfg.max_delay) :
          gwrLog' = Append(gwrLog, Delay(d))
    /\ gwrPc' = "request"
    /\ UNCHANGED <<gwrCfg, gwrAttempt, gwrResult, gwrArgs>>
    /\ UNCHANGED nonGwrVars

\* loop over: logging.error(...); return None
GwrExhausted ==
    /\ gwrPc = "loop"
    /\ ~GwrLoopContinues(gwrAttempt, gwrCfg.max_retries)
    /\ gwrResult' = Absent
    /\ gwrPc' = "done"
    /\ UNCHANGED <<gwrCfg, gwrAttempt, gwrLog, gwrArgs>>
    /\ UNCHANGED nonGwrVars

\* session.get returned a response: classify it, sleep, and return or go on
GwrResponse(status) ==
    /\ gwrPc = "request"
    /\ LET c == GwrClassify(status, gwrAttempt, gwrCfg.base_wait)
           slept == IF c.wait > 0 THEN <<Sleep(c.wait)>> ELSE <<>>
       IN  /\ gwrLog' = Append(gwrLog, Request(status)) \o slept
           /\ IF c.do = "retry"
              THEN /\ gwrAttempt' = gwrAttempt + 1
                   /\ gwrPc' = "loop"
                   /\ UNCHANGED gwrResult
              ELSE /\ gwrResult' = IF c.do = "return" THEN Response(status) ELSE Absent
                   /\ gwrPc' = "done"
                   /\ UNCHANGED gwrAttempt
    /\ UNCHANGED <<gwrCfg, gwrArgs>>
    /\ UNCHANGED nonGwrVars

\* `except requests.exceptions.RequestException`: wait_time = 10, sleep,
\* next iteration (and a variant that returns at once)
GwrExceptAborts == [do |-> "abort", wait |-> 0]
GwrExcept == [do |-> "retry", wait |-> ERROR_WAIT]

\* session.get raised RequestException: sleep 10 s, next iteration
GwrRequestException ==
    /\ gwrPc = "request"
    /\ gwrLog' = gwrLog \o <<RequestError>> \o
                    (IF GwrExcept.wait > 0 THEN <<Sleep(GwrExcept.wait)>> ELSE <<>>)
    /\ IF GwrExcept.do = "retry"
       THEN /\ gwrAttempt' = gwrAttempt + 1
            /\ gwrPc' = "loop"
            /\ UNCHANGED gwrResult
       ELSE /\ gwrResult' = Absent
            /\ gwrPc' = "done"
            /\ UNCHANGED gwrAttempt
    /\ UNCHANGED <<gwrCfg, gwrArgs>>
    /\ UNCHANGED nonGwrVars

\* the arguments callers pass
GwrRetryArgs == {None} \cup {Some(n) : n \in -1..MaxRetries}
GwrBaseWaitArgs == {None, Some(1)}
GwrDelayArgs == {<<None, None>>, <<Some(0), Some(1)>>, <<Some(6), None>>}

GwrNext ==
    \/ \E m \in GwrRetryArgs, b \in GwrBaseWaitArgs, d \in GwrDelayArgs :
          GwrCall(m, b, d[1], d[2])
    \/ GwrRandomDelay
    \/ GwrExhausted
    \/ \E st \in GwrStatuses : GwrResponse(st)
    \/ GwrRequestException

(***************************************************************************)
(* The proxy client: ProxyConfig, ProxyResponse and ProxyClient.get.       *)
(***************************************************************************)
ProxyModes == {"direct", "residential", "web_scraper_api"}

\* ProxyConfig(...): the fields the request loop reads
ProxyConfig(mode, username, password, max_retries, retry_delay, min_delay, max_delay) ==
    [mode |-> mode, username |-> username, password |-> password,
     max_retries |-> max_retries, retry_delay |-> retry_delay,
     min_delay |-> min_delay, max_delay |-> max_delay]

\* retry_delay, min_delay and max_delay of the configurations: no delay
\* configured, a delay range, and a range given the wrong way round.  The
\* retry delay is read only after a failed attempt and the other two only
\* after a successful one, so they are not varied against each other.
PxTimings == {<<1, 0, 0>>, <<2, 1, 2>>, <<2, 2, 1>>}

\* the configurations clients are built from
PxConfigs ==
    { ProxyConfig(m, u, p, r, t[1], t[2], t[3]) :
        m \in ProxyModes, u \in {"", "user"}, p \in {"", "secret"},
        r \in -1..MaxRetries, t \in PxTimings }

\* ProxyConfig.validate (and a variant that looks at the username only)
ValidateUsernameOnly(cfg) ==
    IF cfg.mode = "direct" THEN TRUE
    ELSE IF cfg.username = "" THEN FALSE
    ELSE TRUE
Validate(cfg) ==
    IF cfg.mode = "direct" THEN TRUE
    ELSE IF cfg.username = "" \/ cfg.password = "" THEN FALSE
    ELSE TRUE

\* ProxyResponse.ok
OkUpTo300(status_code) == 200 <= status_code /\ status_code <= 300
Ok(status_code) == 200 <= status_code /\ status_code < 300

\* status codes a target site answers with (direct and residential mode)
PxStatuses == {199, 200, 299, 300, 404, 408, 429, 500}

\* answers of the scraping endpoint: its own status and the status_code
\* entries of its results array (None: the entry has no status_code)
ApiReply(api, results) == [api |-> api, results |-> results]
PxApiReplies ==
    { ApiReply(200, <<Some(st)>>) : st \in {200, 299, 404, 429, 500} }
    \cup { ApiReply(200, <<None>>), ApiReply(200, <<>>),
           ApiReply(200, <<Some(500), Some(200)>>),
           ApiReply(401, <<>>), ApiReply(429, <<>>), ApiReply(500, <<>>) }
NoReply == [given |-> FALSE, api |-> 0, results |-> <<>>]
Replied(reply) == [given |-> TRUE, api |-> reply.api, results |-> reply.results]

\* _request_scraper_api: the status_code of the ProxyResponse it builds
ScraperApiStatus(reply) ==
    IF reply.api = 200 /\ reply.results # <<>>
    THEN OrDefault(reply.results[1], 200)
    ELSE reply.api

\* exceptions an attempt can end with, and the except clause that takes each
PxExceptions == {"Timeout", "ConnectionError", "ValueError"}
PxNoCatchAll(exc) ==
    IF exc = "Timeout" THEN "Timeout"
    ELSE IF exc \in {"Timeout", "ConnectionError"} THEN "RequestException"
    ELSE "uncaught"
PxExceptClause(exc) ==
    IF exc = "Timeout" THEN "Timeout"
    ELSE IF exc \in {"Timeout", "ConnectionError"} THEN "RequestException"
    ELSE "Exception"

\* for attempt in range(self.config.max_retries) (and a variant with one
\* iteration more)
PxLoopOffByOne(attempt, max_retries) == attempt <= max_retries
PxLoopContinues(attempt, max_retries) == attempt < max_retries

\* wait_time = self.config.retry_delay * (2 ** attempt)
PxBackoffLinear(retry_delay, attempt) == retry_delay * (attempt + 1)
PxBackoff(retry_delay, attempt) == retry_delay * Pow2(attempt)

\* variants of the chain below: success tested after the error branches
\* with a pause, and client errors retried like server errors
PxHandleSlowSuccess(status, attempt, cfg) ==
    IF status = 429 THEN [do |-> "retry", wait |-> PxBackoff(cfg.retry_delay, attempt)]
    ELSE IF status >= 500 THEN [do |-> "retry", wait |-> cfg.retry_delay]
    ELSE IF 400 <= status /\ status < 500 THEN [do |-> "return", wait |-> 0]
    ELSE IF Ok(status) THEN [do |-> "return", wait |-> cfg.retry_delay]
    ELSE [do |-> "next", wait |-> 0]
PxHandleRetry4xx(status, attempt, cfg) ==
    IF Ok(status) THEN [do |-> "success", wait |-> 0]
    ELSE IF status = 429 THEN [do |-> "retry", wait |-> PxBackoff(cfg.retry_delay, attempt)]
    ELSE IF status >= 400 THEN [do |-> "retry", wait |-> cfg.retry_delay]
    ELSE [do |-> "next", wait |-> 0]

\* a further variant: a pause after a status no branch takes
PxHandleWaitOther(status, attempt, cfg) ==
    IF Ok(status) THEN [do |-> "success", wait |-> 0]
    ELSE IF status = 429 THEN [do |-> "retry", wait |-> PxBackoff(cfg.retry_delay, attempt)]
    ELSE IF status >= 500 THEN [do |-> "retry", wait |-> cfg.retry_delay]
    ELSE IF 400 <= status /\ status < 500 THEN [do |-> "return", wait |-> 0]
    ELSE [do |-> "next", wait |-> cfg.retry_delay]

\* The chain of ifs on the response of one attempt.  do: "success" (return
\* it, after the direct-mode delay), "return" (return it), "retry" (sleep
\* `wait`, next iteration) or "next" (fall out of the try, next iteration).
PxHandle(status, attempt, cfg) ==
    IF Ok(status) THEN [do |-> "success", wait |-> 0]
    ELSE IF status = 429 THEN [do |-> "retry", wait |-> PxBackoff(cfg.retry_delay, attempt)]
    ELSE IF status >= 500 THEN [do |-> "retry", wait |-> cfg.retry_delay]
    ELSE IF 400 <= status /\ status < 500 THEN [do |-> "return", wait |-> 0]
    ELSE [do |-> "next", wait |-> 0]

\* the latest attempt: its loop index, how it ended ("response" or the name
\* of the exception), the response's status_code and ok, the seconds of
\* backoff slept after it, and the inter-request delay slept after it
NoAttempt ==
    [k |-> 0, out |-> "none", status |-> 0, ok |-> FALSE, slept |-> 0,
     delayed |-> None]
Attempt(k, out, status, slept, delayed) ==
    [k |-> k, out |-> out, status |-> status, ok |-> Ok(status), slept |-> slept,
     delayed |-> delayed]

Raised == [kind |-> "raised", status |-> 0]

\* get_stats(): the mode and request_count entries of the dict it returns;
\* a returned dict is used at once and not kept
NoStats == [given |-> FALSE, mode |-> "direct", request_count |-> 0]
Stats(mode, request_count) ==
    [given |-> TRUE, mode |-> mode, request_count |-> request_count]

\* _configure_session: a new session gets a proxy in residential mode only
ConfiguredProxies(mode) == IF mode = "residential" THEN "residential" ELSE "none"

\* the session property: _session is created and configured on first use
SessionUsed ==
    /\ pxSession' = "open"
    /\ pxProxies' = IF pxSession = "none" THEN ConfiguredProxies(pxCfg.mode)
                    ELSE pxProxies

PxInit ==
    /\ pxPc = "none"
    /\ pxCfg = ProxyConfig("direct", "", "", 3, 2, 0, 0)
    /\ pxSession = "none"
    /\ pxCount = 0
    /\ pxCalls = 0
    /\ pxAttempt = 0
    /\ pxRequests = 0
    /\ pxThrottled = 0
    /\ pxLast = NoAttempt
    /\ pxResult = Pending
    /\ pxGiven = ProxyConfig("direct", "", "", 3, 2, 0, 0)
    /\ pxProxies = "none"
    /\ pxPosted = FALSE
    /\ pxStats = NoStats
    /\ pxApi = NoReply

\* ProxyClient(config): an invalid config falls back to direct mode
PxNew(cfg) ==
    /\ pxPc = "none"
    /\ pxCfg' = IF Validate(cfg) THEN cfg ELSE [cfg EXCEPT !.mode = "direct"]
    /\ pxSession' = "none"
    /\ pxCount' = 0
    /\ pxCalls' = 0
    /\ pxAttempt' = 0
    /\ pxRequests' = 0
    /\ pxThrottled' = 0
    /\ pxLast' = NoAttempt
    /\ pxResult' = Pending
    /\ pxGiven' = cfg
    /\ pxProxies' = "none"
    /\ pxPosted' = FALSE
    /\ pxStats' = NoStats
    /\ pxApi' = NoReply
    /\ pxPc' = "idle"
    /\ UNCHANGED nonPxVars

\* client.get(url, ...) is called
PxGet ==
    /\ pxPc \in {"idle", "done"}
    /\ pxCalls < MaxCalls
    /\ pxCalls' = pxCalls + 1
    /\ pxAttempt' = 0
    /\ pxRequests' = 0
    /\ pxThrottled' = 0
    /\ pxLast' = NoAttempt
    /\ pxResult' = Pending
    /\ pxPc' = "loop"
    /\ pxStats' = NoStats
    /\ pxApi' = NoReply
    /\ UNCHANGED <<pxCfg, pxSession, pxCount, pxGiven, pxProxies, pxPosted>>
    /\ UNCHANGED nonPxVars

\* loop over: logging.error(...); return None
PxExhausted ==
    /\ pxPc = "loop"
    /\ ~PxLoopContinues(pxAttempt, pxCfg.max_retries)
    /\ pxResult' = Absent
    /\ pxPc' = "done"
    /\ UNCHANGED <<pxCfg, pxSession, pxCount, pxCalls, pxAttempt, pxRequests,
                   pxThrottled, pxLast, pxGiven, pxProxies, pxPosted, pxStats,
                   pxApi>>
    /\ UNCHANGED nonPxVars

\* `if self.config.mode == ProxyMode.DIRECT and self.config.max_delay > 0`
\* (and a variant that does not look at the mode)
AppliesDelayAnyMode(cfg) == cfg.max_delay > 0
AppliesDelay(cfg) == cfg.mode = "direct" /\ cfg.max_delay > 0

\* what follows a response with the given status_code in one iteration
PxAfterResponse(status) ==
    LET h == PxHandle(status, pxAttempt, pxCfg)
    IN  /\ pxCount' = pxCount + 1
        /\ pxRequests' = pxRequests + 1
        /\ pxThrottled' = IF status = 429 THEN pxThrottled + 1 ELSE pxThrottled
        /\ IF h.do = "success"
           THEN /\ IF AppliesDelay(pxCfg)
                   THEN \E d \in DelaySamples(pxCfg.min_delay, pxCfg.max_delay) :
                            pxLast' = Attempt(pxAttempt, "response", status, 0, Some(d))
                   ELSE pxLast' = Attempt(pxAttempt, "response", status, 0, None)
                /\ pxResult' = Response(status)
                /\ pxPc' = "done"
                /\ UNCHANGED pxAttempt
           ELSE IF h.do = "return"
           THEN /\ pxLast' = Attempt(pxAttempt, "response", status, h.wait, None)
                /\ pxResult' = Response(status)
                /\ pxPc' = "done"
                /\ UNCHANGED pxAttempt
           ELSE /\ pxLast' = Attempt(pxAttempt, "response", status, h.wait, None)
                /\ pxAttempt' = pxAttempt + 1
                /\ UNCHANGED <<pxResult, pxPc>>

\* one iteration in direct or residential mode: _request_direct through the
\* session (created on first use) came back with a response
PxDirectResponse(status) ==
    /\ pxPc = "loop"
    /\ PxLoopContinues(pxAttempt, pxCfg.max_retries)
    /\ pxCfg.mode # "web_scraper_api"
    /\ SessionUsed
    /\ PxAfterResponse(status)
    /\ pxApi' = NoReply
    /\ UNCHANGED <<pxCfg, pxCalls, pxGiven, pxPosted, pxStats>>
    /\ UNCHANGED nonPxVars

\* one iteration in web_scraper_api mode: the POST to the scraping endpoint
\* was answered
PxApiResponse(reply) ==
    /\ pxPc = "loop"
    /\ PxLoopContinues(pxAttempt, pxCfg.max_retries)
    /\ pxCfg.mode = "web_scraper_api"
    /\ pxPosted' = TRUE
    /\ pxApi' = Replied(reply)
    /\ PxAfterResponse(ScraperApiStatus(reply))
    /\ UNCHANGED <<pxCfg, pxSession, pxCalls, pxGiven, pxProxies, pxStats>>
    /\ UNCHANGED nonPxVars

\* one iteration whose request raised: the matching except clause sleeps
\* retry_delay and the loop goes on; an exception no clause takes leaves get
PxRequestRaises(exc) ==
    /\ pxPc = "loop"
    /\ PxLoopContinues(pxAttempt, pxCfg.max_retries)
    /\ pxRequests' = pxRequests + 1
    /\ IF pxCfg.mode = "web_scraper_api"
       THEN pxPosted' = TRUE /\ UNCHANGED <<pxSession, pxProxies>>
       ELSE SessionUsed /\ UNCHANGED pxPosted
    /\ IF PxExceptClause(exc) = "uncaught"
       THEN /\ pxLast' = Attempt(pxAttempt, exc, 0, 0, None)
            /\ pxResult' = Raised
            /\ pxPc' = "done"
            /\ UNCHANGED pxAttempt
       ELSE /\ pxLast' = Attempt(pxAttempt, exc, 0, pxCfg.retry_delay, None)
            /\ pxAttempt' = pxAttempt + 1
            /\ UNCHANGED <<pxResult, pxPc>>
    /\ pxApi' = NoReply
    /\ UNCHANGED <<pxCfg, pxCount, pxCalls, pxThrottled, pxGiven, pxStats>>
    /\ UNCHANGED nonPxVars

\* a variant of close that also clears the request counter
PxCloseResetsCount ==
    /\ pxPc \in {"idle", "done"}
    /\ pxSession' = "none"
    /\ pxProxies' = "none"
    /\ pxStats' = NoStats
    /\ pxCount' = 0
    /\ UNCHANGED <<pxPc, pxCfg, pxCalls, pxAttempt, pxRequests,
                   pxThrottled, pxLast, pxResult, pxGiven, pxPosted, pxApi>>
    /\ UNCHANGED nonPxVars

\* client.close()
PxClose ==
    /\ pxPc \in {"idle", "done"}
    /\ pxSession' = "none"
    /\ pxProxies' = "none"
    /\ pxStats' = NoStats
    /\ UNCHANGED <<pxPc, pxCfg, pxCount, pxCalls, pxAttempt, pxRequests,
                   pxThrottled, pxLast, pxResult, pxGiven, pxPosted, pxApi>>
    /\ UNCHANGED nonPxVars

\* client.get_stats()
PxGetStats ==
    /\ pxPc \in {"idle", "done"}
    /\ pxStats' = Stats(pxCfg.mode, pxCount)
    /\ UNCHANGED <<pxPc, pxCfg, pxSession, pxCount, pxCalls, pxAttempt,
                   pxRequests, pxThrottled, pxLast, pxResult, pxGiven,
                   pxProxies, pxPosted, pxApi>>
    /\ UNCHANGED nonPxVars

\* the caller drops the client: nothing of it remains
PxDiscard ==
    /\ pxPc \in {"idle", "done"}
    /\ pxPc' = "none"
    /\ pxCfg' = ProxyConfig("direct", "", "", 3, 2, 0, 0)
    /\ pxSession' = "none"
    /\ pxCount' = 0
    /\ pxCalls' = 0
    /\ pxAttempt' = 0
    /\ pxRequests' = 0
    /\ pxThrottled' = 0
    /\ pxLast' = NoAttempt
    /\ pxResult' = Pending
    /\ pxGiven' = ProxyConfig("direct", "", "", 3, 2, 0, 0)
    /\ pxProxies' = "none"
    /\ pxPosted' = FALSE
    /\ pxStats' = NoStats
    /\ pxApi' = NoReply
    /\ UNCHANGED nonPxVars

PxNext ==
    \/ \E cfg \in PxConfigs : PxNew(cfg)
    \/ PxDiscard
    \/ PxGet
    \/ PxExhausted
    \/ \E st \in PxStatuses : PxDirectResponse(st)
    \/ \E reply \in PxApiReplies : PxApiResponse(reply)
    \/ \E exc \in PxExceptions : PxRequestRaises(exc)
    \/ PxClose
    \/ PxGetStats

(***************************************************************************)
(* The checkpoint store: save_checkpoint and load_checkpoint.              *)
(* One writer process and one reader share the checkpoint directory; the   *)
(* writer may die at any step and a new call may start afterwards.         *)
(***************************************************************************)
Target == <<"checkpoint", 0>>
\* mkstemp(prefix=name + '.', suffix='.tmp', dir=path.parent) creates a file
\* that does not exist yet; every leftover of a dead writer or of a failed
\* deletion uses up one name.
TempNames == { <<"tmp", i>> : i \in 1..(MaxCrashes + MaxUnlinkFails + 1) }

Content(fs, name) ==
    IF name \in DOMAIN fs THEN [exists |-> TRUE, toks |-> fs[name]]
    ELSE [exists |-> FALSE, toks |-> <<>>]

NoData == [some |-> FALSE, val |-> PyNone]
SomeData(v) == [some |-> TRUE, val |-> v]

\* the file json.dump writes into: the descriptor mkstemp returned
WritePathInPlace == Target
WritePath == saveTemp

\* shutil.move(temp_path, path) inside one directory is os.rename: the target
\* name is switched to the temp file's content in one step and the temp name
\* disappears.
RenamedLost(fs, src, dst) == [n \in DOMAIN fs \ {src} |-> fs[n]]
Renamed(fs, src, dst) ==
    [n \in (DOMAIN fs \ {src}) \cup {dst} |-> IF n = dst THEN fs[src] ELSE fs[n]]

\* Path(temp_path).unlink(missing_ok=True) (and a variant that removes
\* nothing)
UnlinkedNothing(fs, name) == fs
Unlinked(fs, name) == [n \in DOMAIN fs \ {name} |-> fs[n]]

\* the cleanup of a failed call: the temp file it was about, and whether the
\* deletion itself raised
NoCleanup == [done |-> FALSE, temp |-> Target, failed |-> FALSE]
CleanedUp(temp, failed) == [done |-> TRUE, temp |-> temp, failed |-> failed]

CkptInit ==
    /\ files = <<>>
    /\ savePc = "idle"
    /\ saveData = PyNone
    /\ saveTemp = Target
    /\ saveWritten = 0
    /\ saveOutcome = "none"
    /\ startTarget = Content(<<>>, Target)
    /\ lastSaved = NoData
    /\ crashes = 0
    /\ saveError = "none"
    /\ lastCleanup = NoCleanup
    /\ unlinkFails = 0
    /\ loadPc = "idle"
    /\ loadRead = Content(<<>>, Target)
    /\ loadResult = [how |-> "none", val |-> PyNone]
    /\ loadExpect = NoData

loadVars == <<loadPc, loadRead, loadResult, loadExpect>>

\* the locals of a call are gone when it returns, raises or its process dies
CallEnds ==
    /\ saveData' = PyNone
    /\ saveTemp' = Target
    /\ saveWritten' = 0

\* save_checkpoint(data, filepath) is called: path.parent.mkdir(...)
SaveStart(d) ==
    /\ savePc = "idle"
    /\ savePc' = "mkstemp"
    /\ saveData' = d
    /\ saveWritten' = 0
    /\ saveOutcome' = "running"
    /\ startTarget' = Content(files, Target)
    /\ saveError' = "none"
    /\ lastCleanup' = NoCleanup
    /\ UNCHANGED <<files, saveTemp, lastSaved, crashes, unlinkFails, loadVars>>
    /\ UNCHANGED nonCkptVars

\* tempfile.mkstemp: an empty file under a name that does not exist yet.  The
\* random part of the name is irrelevant to the rest of the call, so the
\* first unused name stands for it.
Mkstemp ==
    /\ savePc = "mkstemp"
    /\ \E name \in TempNames \ DOMAIN files :
          /\ \A other \in TempNames \ DOMAIN files : name[2] <= other[2]
          /\ files' = [n \in DOMAIN files \cup {name} |->
                          IF n = name THEN <<>> ELSE files[n]]
          /\ saveTemp' = name
    /\ savePc' = "dump"
    /\ UNCHANGED <<saveData, saveWritten, saveOutcome, startTarget, lastSaved,
                   crashes, saveError, lastCleanup, unlinkFails, loadVars>>
    /\ UNCHANGED nonCkptVars

\* mkstemp raises OSError: logged by the outer handler and re-raised
MkstempFails ==
    /\ savePc = "mkstemp"
    /\ savePc' = "idle"
    /\ saveOutcome' = "raised"
    /\ saveError' = "OSError"
    /\ CallEnds
    /\ UNCHANGED <<files, startTarget, lastSaved, crashes, lastCleanup,
                   unlinkFails, loadVars>>
    /\ UNCHANGED nonCkptVars

\* json.dump writes its next chunk to the open file
DumpChunk ==
    /\ savePc = "dump"
    /\ saveWritten < Len(JsonChunks(saveData).toks)
    /\ files' = [files EXCEPT ![WritePath] =
                    Append(@, JsonChunks(saveData).toks[saveWritten + 1])]
    /\ saveWritten' = saveWritten + 1
    /\ UNCHANGED <<savePc, saveData, saveTemp, saveOutcome, startTarget,
                   lastSaved, crashes, saveError, lastCleanup, unlinkFails,
                   loadVars>>
    /\ UNCHANGED nonCkptVars

\* json.dump returned and the with-block closed the file
DumpDone ==
    /\ savePc = "dump"
    /\ saveWritten = Len(JsonChunks(saveData).toks)
    /\ JsonChunks(saveData).ok
    /\ savePc' = "move"
    /\ UNCHANGED <<files, saveData, saveTemp, saveWritten, saveOutcome,
                   startTarget, lastSaved, crashes, saveError, lastCleanup,
                   unlinkFails, loadVars>>
    /\ UNCHANGED nonCkptVars

\* json.dump raises TypeError at the value it cannot serialise
DumpTypeError ==
    /\ savePc = "dump"
    /\ saveWritten = Len(JsonChunks(saveData).toks)
    /\ ~JsonChunks(saveData).ok
    /\ savePc' = "cleanup"
    /\ saveError' = "TypeError"
    /\ UNCHANGED <<files, saveData, saveTemp, saveWritten, saveOutcome,
                   startTarget, lastSaved, crashes, lastCleanup, unlinkFails,
                   loadVars>>
    /\ UNCHANGED nonCkptVars

\* a write or the close raises OSError (disk full, I/O error)
DumpIOError ==
    /\ savePc = "dump"
    /\ savePc' = "cleanup"
    /\ saveError' = "OSError"
    /\ UNCHANGED <<files, saveData, saveTemp, saveWritten, saveOutcome,
                   startTarget, lastSaved, crashes, lastCleanup, unlinkFails,
                   loadVars>>
    /\ UNCHANGED nonCkptVars

\* shutil.move(temp_path, path), then the call returns
Move ==
    /\ savePc = "move"
    /\ files' = Renamed(files, saveTemp, Target)
    /\ lastSaved' = SomeData(saveData)
    /\ startTarget' = Content(files', Target)
    /\ savePc' = "idle"
    /\ saveOutcome' = "saved"
    /\ CallEnds
    /\ UNCHANGED <<crashes, saveError, lastCleanup, unlinkFails, loadVars>>
    /\ UNCHANGED nonCkptVars

\* the rename raises OSError
MoveFails ==
    /\ savePc = "move"
    /\ savePc' = "cleanup"
    /\ saveError' = "OSError"
    /\ UNCHANGED <<files, saveData, saveTemp, saveWritten, saveOutcome,
                   startTarget, lastSaved, crashes, lastCleanup, unlinkFails,
                   loadVars>>
    /\ UNCHANGED nonCkptVars

\* except Exception as e: Path(temp_path).unlink(missing_ok=True); raise e
\* (an OSError is logged by the outer handler and raised on, a TypeError
\* passes it by)
Cleanup ==
    /\ savePc = "cleanup"
    /\ files' = Unlinked(files, saveTemp)
    /\ lastCleanup' = CleanedUp(saveTemp, FALSE)
    /\ savePc' = "idle"
    /\ saveOutcome' = "raised"
    /\ CallEnds
    /\ UNCHANGED <<startTarget, lastSaved, crashes, saveError, unlinkFails,
                   loadVars>>
    /\ UNCHANGED nonCkptVars

\* the same handler when unlink raises: except Exception: pass; raise e
CleanupUnlinkFails ==
    /\ savePc = "cleanup"
    /\ unlinkFails < MaxUnlinkFails
    /\ unlinkFails' = unlinkFails + 1
    /\ lastCleanup' = CleanedUp(saveTemp, TRUE)
    /\ savePc' = "idle"
    /\ saveOutcome' = "raised"
    /\ CallEnds
    /\ UNCHANGED <<files, startTarget, lastSaved, crashes, saveError, loadVars>>
    /\ UNCHANGED nonCkptVars

\* the writer process dies: nothing of the call runs any more, the directory
\* stays as it is
Crash ==
    /\ savePc # "idle"
    /\ crashes < MaxCrashes
    /\ crashes' = crashes + 1
    /\ savePc' = "idle"
    /\ saveOutcome' = "crashed"
    /\ saveError' = "none"
    /\ CallEnds
    /\ UNCHANGED <<files, startTarget, lastSaved, lastCleanup, unlinkFails,
                   loadVars>>
    /\ UNCHANGED nonCkptVars

saveVars == <<files, savePc, saveData, saveTemp, saveWritten, saveOutcome,
              startTarget, lastSaved, crashes, saveError, lastCleanup,
              unlinkFails>>

\* what the try block of load_checkpoint gives for the directory as it is
\* when the file is opened: open(path) raising FileNotFoundError and
\* json.load raising JSONDecodeError are caught and give None (and a variant
\* whose except clause names FileNotFoundError only)
LoadOutcomeUncaught(fs) ==
    IF Target \notin DOMAIN fs THEN [how |-> "missing", val |-> PyNone]
    ELSE LET p == JsonLoad(fs[Target])
         IN  IF p.ok THEN [how |-> "decoded", val |-> p.val]
             ELSE [how |-> "raised", val |-> PyNone]
LoadOutcome(fs) ==
    IF Target \notin DOMAIN fs THEN [how |-> "missing", val |-> PyNone]
    ELSE LET p == JsonLoad(fs[Target])
         IN  IF p.ok THEN [how |-> "decoded", val |-> p.val]
             ELSE [how |-> "malformed", val |-> PyNone]

\* load_checkpoint(filepath): if not path.exists(): return None
LoadStart ==
    /\ loadPc \in {"idle", "done"}
    /\ IF Target \in DOMAIN files
       THEN /\ loadPc' = "open"
            /\ UNCHANGED <<loadRead, loadResult, loadExpect>>
       ELSE /\ loadPc' = "done"
            /\ loadRead' = Content(files, Target)
            /\ loadResult' = [how |-> "missing", val |-> PyNone]
            /\ loadExpect' = lastSaved
    /\ UNCHANGED saveVars
    /\ UNCHANGED nonCkptVars

\* open(path) and json.load(f); JSONDecodeError and FileNotFoundError give None
LoadRead ==
    /\ loadPc = "open"
    /\ loadPc' = "done"
    /\ loadRead' = Content(files, Target)
    /\ loadExpect' = lastSaved
    /\ loadResult' = LoadOutcome(files)
    /\ UNCHANGED saveVars
    /\ UNCHANGED nonCkptVars

CkptNext ==
    \/ \E d \in DataValues : SaveStart(d)
    \/ Mkstemp
    \/ MkstempFails
    \/ DumpChunk
    \/ DumpDone
    \/ DumpTypeError
    \/ DumpIOError
    \/ Move
    \/ MoveFails
    \/ Cleanup
    \/ Crash
    \/ LoadStart
    \/ LoadRead

\* Something other than save_checkpoint rewrites the checkpoint file (a
\* truncation, a copy cut short, an edit): a part of its text remains.
Damage ==
    /\ Target \in DOMAIN files
    /\ lastSaved.some
    /\ files[Target] = JsonChunks(lastSaved.val).toks
    /\ \E i \in 1..Len(files[Target]), j \in 0..Len(files[Target]) :
          /\ i <= j + 1
          /\ j - i + 1 < Len(files[Target])
          /\ files' = [files EXCEPT ![Target] = SubSeq(@, i, j)]
    /\ UNCHANGED <<savePc, saveData, saveTemp, saveWritten, saveOutcome,
                   startTarget, lastSaved, crashes, saveError, lastCleanup,
                   unlinkFails, loadVars>>
    /\ UNCHANGED nonCkptVars

\* the checkpoint file is deleted by something other than this module
Remove ==
    /\ Target \in DOMAIN files
    /\ files' = Unlinked(files, Target)
    /\ UNCHANGED <<savePc, saveData, saveTemp, saveWritten, saveOutcome,
                   startTarget, lastSaved, crashes, saveError, lastCleanup,
                   unlinkFails, loadVars>>
    /\ UNCHANGED nonCkptVars

\* the checkpoints the loads below find on disk: one list and one dict
LoadedValues == {PyList(<<PyInt(7)>>), PyDict(<<PyStr("k"), PyStr("a")>>)}

\* load_checkpoint beside a writer whose calls complete, in a directory
\* where the checkpoint file can also be damaged or deleted from outside
LoadNext ==
    \/ \E d \in LoadedValues : SaveStart(d)
    \/ Mkstemp
    \/ DumpChunk
    \/ DumpDone
    \/ Move
    \/ Damage
    \/ Remove
    \/ LoadStart
    \/ LoadRead

\* save_checkpoint alone, with every failure its handlers take: a failed
\* mkstemp, write, serialisation or rename, and a failed deletion of the temp
\* file in the cleanup
SaveNext ==
    \/ \E d \in DataValues : SaveStart(d)
    \/ Mkstemp
    \/ MkstempFails
    \/ DumpChunk
    \/ DumpDone
    \/ DumpTypeError
    \/ DumpIOError
    \/ Move
    \/ MoveFails
    \/ Cleanup
    \/ CleanupUnlinkFails

(***************************************************************************)
(* The output writers: save_to_csv and save_to_json.                       *)
(* A path is the sequence of its components below the working directory;   *)
(* a store is a dict from field names to strings.                          *)
(***************************************************************************)
\* the default fieldnames of save_to_csv
DefaultFieldnames ==
    <<"name", "street_address", "city", "state", "zip", "country", "latitude",
      "longitude", "phone", "url", "scraped_at">>

\* path.parent and its parents, up to the working directory
Parents(path) == { SubSeq(path, 1, n) : n \in 0..(Len(path) - 1) }

\* `if not stores` (and a variant that never holds)
NoStoresNever(stores) == FALSE
NoStores(stores) == stores = <<>>

\* csv.DictWriter(f, fieldnames, extrasaction='ignore'): the row of a store
\* has one cell per field name, empty where the store has no such key; keys
\* that are no field name are left out
CsvRow(store, fieldnames) ==
    [i \in 1..Len(fieldnames) |->
        IF fieldnames[i] \in DOMAIN store THEN store[fieldnames[i]] ELSE ""]

\* writer.writeheader(); writer.writerows(stores)
CsvText(stores, fieldnames) ==
    [kind |-> "csv", header |-> fieldnames,
     rows |-> [i \in 1..Len(stores) |-> CsvRow(stores[i], fieldnames)]]

\* json.dump(stores, f, indent=2, ensure_ascii=False): the array of the
\* stores with all their keys
JsonText(stores) == [kind |-> "json", header |-> <<>>, rows |-> stores]

\* open(path, 'w') and the writes: the file is created or replaced
Written(fs, path, text) ==
    [q \in DOMAIN fs \cup {path} |-> IF q = path THEN text ELSE fs[q]]

\* the record lists and paths the writers are called with
StoreA == [name |-> "A", city |-> "X", note |-> "n"]
StoreB == [name |-> "B", zip |-> "1"]
StoreLists == {<<>>, <<StoreA>>, <<StoreA, StoreB>>}
OutPaths == {<<"stores">>, <<"out", "stores">>, <<"out", "run", "stores">>}
\* fieldnames: None, or a list of column names
NoFieldnames == [given |-> FALSE, v |-> <<>>]
FieldnameArgs == {NoFieldnames, [given |-> TRUE, v |-> <<"name", "zip">>]}

NoCall == [fn |-> "none", stores |-> <<>>, path |-> <<>>, fieldnames |-> NoFieldnames,
           warned |-> FALSE]
Call(fn, stores, path, fieldnames, warned) ==
    [fn |-> fn, stores |-> stores, path |-> path, fieldnames |-> fieldnames,
     warned |-> warned]

OutInit ==
    /\ outDirs = {<<>>}
    /\ outFiles = <<>>
    /\ outLast = NoCall

\* save_to_csv(stores, filepath, fieldnames)
SaveToCsv(stores, path, fieldnames) ==
    /\ IF NoStores(stores)
       THEN /\ outLast' = Call("save_to_csv", stores, path, fieldnames, TRUE)
            /\ UNCHANGED <<outDirs, outFiles>>
       ELSE /\ outDirs' = outDirs \cup Parents(path)
            /\ outFiles' = Written(outFiles, path,
                               CsvText(stores, IF fieldnames.given THEN fieldnames.v
                                                ELSE DefaultFieldnames))
            /\ outLast' = Call("save_to_csv", stores, path, fieldnames, FALSE)
    /\ UNCHANGED nonOutVars

\* save_to_json(stores, filepath)
SaveToJson(stores, path) ==
    /\ IF NoStores(stores)
       THEN /\ outLast' = Call("save_to_json", stores, path, NoFieldnames, TRUE)
            /\ UNCHANGED <<outDirs, outFiles>>
       ELSE /\ outDirs' = outDirs \cup Parents(path)
            /\ outFiles' = Written(outFiles, path, JsonText(stores))
            /\ outLast' = Call("save_to_json", stores, path, NoFieldnames, FALSE)
    /\ UNCHANGED nonOutVars

OutNext ==
    \/ \E stores \in StoreLists, path \in OutPaths, f \in FieldnameArgs :
          SaveToCsv(stores, path, f)
    \/ \E stores \in StoreLists, path \in OutPaths : SaveToJson(stores, path)

(***************************************************************************)
(* What the proxy client sends: _build_residential_proxy_url and the       *)
(* payload of _request_scraper_api.                                        *)
(***************************************************************************)
\* "-".join(parts)
RECURSIVE Join(_)
Join(parts) ==
    IF parts = <<>> THEN ""
    ELSE IF Len(parts) = 1 THEN parts[1]
    ELSE parts[1] \o "-" \o Join(Tail(parts))

\* username_parts.append(part) under a condition
AppendIf(parts, cond, part) == IF cond THEN Append(parts, part) ELSE parts

\* `if self.config.session_type == "sticky" and self.config.session_id`
\* (and a variant that ignores the session type)
StickySessionAnyType(cfg) == cfg.session_id # ""
StickySession(cfg) == cfg.session_type = "sticky" /\ cfg.session_id # ""

\* the username _build_residential_proxy_url builds
ResidentialUsername(cfg) ==
    LET p0 == <<cfg.username>>
        p1 == AppendIf(p0, cfg.country_code # "", "country-" \o cfg.country_code)
        p2 == AppendIf(p1, cfg.city # "", "city-" \o cfg.city)
        p3 == AppendIf(p2, cfg.state # "", "state-" \o cfg.state)
        p4 == AppendIf(p3, StickySession(cfg), "session-" \o cfg.session_id)
    IN  Join(p4)

\* f"http://{username}:{password}@{residential_endpoint}"
ResidentialProxyUrl(cfg) ==
    "http://" \o ResidentialUsername(cfg) \o ":" \o cfg.password
        \o "@" \o cfg.residential_endpoint

\* the residential configs: credentials are given (the client is in
\* residential mode), the targeting fields are set or empty
ResidentialConfigs ==
    [username : {"u", "user"}, password : {"pw"},
     residential_endpoint : {"pr.oxylabs.io:7777"},
     country_code : {"", "us"}, city : {"", "seattle"}, state : {"", "wa"},
     session_type : {"rotating", "sticky"}, session_id : {"", "abc"}]

\* str.upper() on the country codes of the model
Upper(str) == IF str = "us" THEN "US" ELSE str

\* a payload value: a JSON value, or Python's None
Null == [given |-> FALSE, v |-> ""]
Value(x) == [given |-> TRUE, v |-> x]

\* payload[key] = value
Put(dict, key, value) ==
    [k \in DOMAIN dict \cup {key} |-> IF k = key THEN value ELSE dict[k]]

\* {k: v for k, v in payload.items() if v is not None} (and a variant
\* that keeps every key)
KeepAll(dict) == dict
WithoutNone(dict) == [k \in {x \in DOMAIN dict : dict[x].given} |-> dict[k]]

\* get: render_js = render_js if render_js is not None else config.render_js
EffectiveRenderJs(override, cfg) ==
    IF override.given THEN override.v ELSE cfg.render_js

\* `if headers`: None and the empty dict are both false
HasHeaders(headers) == headers.given /\ headers.v # <<>>

\* the payload _request_scraper_api posts
ScraperApiPayload(cfg, url, headers, render_js) ==
    LET d0 == [source |-> Value("universal"), url |-> Value(url),
               geo_location |-> IF cfg.country_code # ""
                                THEN Value(Upper(cfg.country_code))
                                ELSE Null]
        d1 == IF render_js THEN Put(d0, "render", Value("html")) ELSE d0
        d2 == IF HasHeaders(headers)
              THEN Put(d1, "custom_headers", Value(headers.v)) ELSE d1
        d3 == IF cfg.parse THEN Put(d2, "parse", Value(TRUE)) ELSE d2
    IN  WithoutNone(d3)

\* the configs and arguments of the API requests
ApiConfigs == [country_code : {"", "us"}, render_js : BOOLEAN, parse : BOOLEAN]
HeaderArgs ==
    {[given |-> FALSE, v |-> <<>>], [given |-> TRUE, v |-> <<>>],
     [given |-> TRUE, v |-> << <<"Accept", "text/html">> >>]}
RenderArgs ==
    {[given |-> FALSE, v |-> FALSE], [given |-> TRUE, v |-> FALSE],
     [given |-> TRUE, v |-> TRUE]}
Urls == {"https://example.com/stores"}

NoUrlConfig ==
    [username |-> "", password |-> "", residential_endpoint |-> "",
     country_code |-> "", city |-> "", state |-> "",
     session_type |-> "rotating", session_id |-> ""]
NoPayloadCall ==
    [made |-> FALSE, cfg |-> [country_code |-> "", render_js |-> FALSE,
                              parse |-> FALSE],
     url |-> "", headers |-> [given |-> FALSE, v |-> <<>>],
     render_js |-> [given |-> FALSE, v |-> FALSE]]

SendInit ==
    /\ urlConfig = NoUrlConfig
    /\ proxy_url = [username |-> "", url |-> ""]
    /\ payloadCall = NoPayloadCall
    /\ payload = <<>>

\* _configure_session in residential mode: the proxy URL is built
BuildResidentialProxyUrl(cfg) ==
    /\ urlConfig' = cfg
    /\ proxy_url' = [username |-> ResidentialUsername(cfg),
                     url |-> ResidentialProxyUrl(cfg)]
    /\ UNCHANGED <<payloadCall, payload>>
    /\ UNCHANGED nonSendVars

\* get(url, headers, render_js=override) in web_scraper_api mode, up to the
\* post of the payload
PostScraperApi(cfg, url, headers, override) ==
    /\ payloadCall' = [made |-> TRUE, cfg |-> cfg, url |-> url,
                       headers |-> headers, render_js |-> override]
    /\ payload' = ScraperApiPayload(cfg, url, headers,
                                    EffectiveRenderJs(override, cfg))
    /\ UNCHANGED <<urlConfig, proxy_url>>
    /\ UNCHANGED nonSendVars

SendNext ==
    \/ \E cfg \in ResidentialConfigs : BuildResidentialProxyUrl(cfg)
    \/ \E cfg \in ApiConfigs, url \in Urls, headers \in HeaderArgs,
            override \in RenderArgs : PostScraperApi(cfg, url, headers, override)

(***************************************************************************)
(* The default proxy client: the module global _proxy_client and the       *)
(* functions that select a client (get_proxy_client, get_with_proxy,       *)
(* create_proxied_session, ProxiedSession, init_proxy_from_yaml,           *)
(* close_proxy_client).  A client is known by its index in `clients`.      *)
(***************************************************************************)
\* a config dict: its mode, and its username and password, <<>> when the
\* dict has neither key; the optional argument is such a dict or None
NoDict == [given |-> FALSE, mode |-> "direct", creds |-> <<>>]
Dict(mode, creds) == [given |-> TRUE, mode |-> mode, creds |-> creds]
DictArgs ==
    {NoDict} \cup { Dict(m, c) : m \in ProxyModes,
                                 c \in {<<>>, <<"user", "">>, <<"user", "secret">>} }

\* the environments: PROXY_MODE, OXYLABS_USERNAME and OXYLABS_PASSWORD
Environments ==
    [mode : ProxyModes, creds : {<<"", "">>, <<"user", "secret">>}]

\* ProxyConfig.from_env()
FromEnv(env) ==
    [mode |-> env.mode, username |-> env.creds[1], password |-> env.creds[2]]

\* ProxyConfig.from_dict(data): username and password come from the
\* environment when the dict has no such key
FromDict(data, env) ==
    [mode |-> data.mode,
     username |-> IF data.creds = <<>> THEN env.creds[1] ELSE data.creds[1],
     password |-> IF data.creds = <<>> THEN env.creds[2] ELSE data.creds[2]]

\* ProxyClient(config): no session yet; an invalid config is set to direct
\* mode.  `given` keeps the mode the config was built with.
Client(cfg) ==
    [mode |-> IF Validate(cfg) THEN cfg.mode ELSE "direct",
     given |-> cfg.mode, session |-> "none"]

\* get_proxy_client(config): does it build a client, which client does it
\* return, and what are the clients and _proxy_client after it (with a
\* variant in which any call sets a missing _proxy_client)
Builds(config) == config.given \/ proxy_client = 0
Selected(config) ==
    IF Builds(config) THEN Len(clients) + 1 ELSE proxy_client
ClientsAfter(config) ==
    IF config.given THEN Append(clients, Client(FromDict(config, environ)))
    ELSE IF proxy_client = 0 THEN Append(clients, Client(FromEnv(environ)))
    ELSE clients
DefaultAfterAnyCall(config) ==
    IF proxy_client = 0 THEN Len(clients) + 1 ELSE proxy_client
DefaultAfter(config) ==
    IF ~config.given /\ proxy_client = 0 THEN Len(clients) + 1 ELSE proxy_client

\* client.get(url): in direct and residential mode the request goes over
\* the client's session, which is created on first use
AfterGet(cs, c) ==
    [cs EXCEPT ![c].session = IF cs[c].mode = "web_scraper_api" THEN @ ELSE "open"]

\* client.close()
AfterClose(cs, c) == [cs EXCEPT ![c].session = "none"]

\* what a call returned: a ProxyClient, a plain requests session, the
\* result of a get, a ProxiedSession wrapper, or nothing
NoModuleCall ==
    [fn |-> "none", config |-> NoDict, client |-> 0, returned |-> "nothing"]
ModuleCall(fn, config, client, returned) ==
    [fn |-> fn, config |-> config, client |-> client, returned |-> returned]

DefaultInit ==
    /\ environ = [mode |-> "direct", creds |-> <<"", "">>]
    /\ clients = <<>>
    /\ proxy_client = 0
    /\ wasDefault = {}
    /\ lastCall = NoModuleCall

\* the environment is set up before the module's functions are used
Setenv(env) ==
    /\ clients = <<>>
    /\ environ' = env
    /\ UNCHANGED <<clients, proxy_client, wasDefault, lastCall>>
    /\ UNCHANGED nonDefaultVars

\* the effect of get_proxy_client(config) within a calling function
Selects(config) ==
    /\ Builds(config) => Len(clients) < MaxClients
    /\ proxy_client' = DefaultAfter(config)
    /\ wasDefault' = IF DefaultAfter(config) = 0 THEN wasDefault
                     ELSE wasDefault \cup {DefaultAfter(config)}

\* get_proxy_client(config)
GetProxyClient(config) ==
    /\ Selects(config)
    /\ clients' = ClientsAfter(config)
    /\ lastCall' = ModuleCall("get_proxy_client", config, Selected(config), "client")
    /\ UNCHANGED environ
    /\ UNCHANGED nonDefaultVars

\* get_with_proxy(url, proxy_config, ...)
GetWithProxy(config) ==
    /\ Selects(config)
    /\ clients' = AfterGet(ClientsAfter(config), Selected(config))
    /\ lastCall' = ModuleCall("get_with_proxy", config, Selected(config), "result")
    /\ UNCHANGED environ
    /\ UNCHANGED nonDefaultVars

\* a retailer config: None, a dict without a proxy key, or a dict whose
\* proxy key holds a config dict
NoRetailer == [given |-> FALSE, proxy |-> NoDict]
Retailer(proxy) == [given |-> TRUE, proxy |-> proxy]
RetailerArgs == {NoRetailer} \cup { Retailer(d) : d \in DictArgs }

\* create_proxied_session: proxy_config = retailer_config['proxy'] if the
\* retailer config has one, else None
ProxyBlock(retailer) ==
    IF retailer.given /\ retailer.proxy.given THEN retailer.proxy ELSE NoDict

\* create_proxied_session: `if client.config.mode == ProxyMode.DIRECT` (and
\* a variant that tests the mode the config was built with)
ReturnsPlainSessionByGivenMode(client) == client.given = "direct"
ReturnsPlainSession(client) == client.mode = "direct"

\* create_proxied_session(retailer_config)
CreateProxiedSession(retailer) ==
    LET config == ProxyBlock(retailer)
    IN  /\ Selects(config)
        /\ clients' = ClientsAfter(config)
        /\ lastCall' =
              ModuleCall("create_proxied_session", config, Selected(config),
                         IF ReturnsPlainSession(ClientsAfter(config)[Selected(config)])
                         THEN "session" ELSE "client")
        /\ UNCHANGED environ
        /\ UNCHANGED nonDefaultVars

\* ProxiedSession(proxy_config)
ProxiedSessionInit(config) ==
    /\ Selects(config)
    /\ clients' = ClientsAfter(config)
    /\ lastCall' = ModuleCall("ProxiedSession", config, Selected(config), "wrapper")
    /\ UNCHANGED environ
    /\ UNCHANGED nonDefaultVars

\* what init_proxy_from_yaml finds at yaml_path: no file, a file that does
\* not load, or a file whose proxy block has the given mode
YamlFiles == {"missing", "unloadable"} \cup ProxyModes

\* init_proxy_from_yaml: the client that was _proxy_client is let go as it
\* is when the new one takes its place
Replaced(cs, old) == cs

\* init_proxy_from_yaml(yaml_path)
InitProxyFromYaml(yaml) ==
    /\ IF yaml \in ProxyModes
       THEN LET config == Dict(yaml, <<>>)
            IN  /\ Len(clients) < MaxClients
                /\ clients' = Replaced(ClientsAfter(config), proxy_client)
                /\ proxy_client' = Selected(config)
                /\ wasDefault' = wasDefault \cup {Selected(config)}
                /\ lastCall' = ModuleCall("init_proxy_from_yaml", config,
                                          Selected(config), "client")
       ELSE /\ Selects(NoDict)
            /\ clients' = ClientsAfter(NoDict)
            /\ lastCall' = ModuleCall("init_proxy_from_yaml", NoDict,
                                      Selected(NoDict), "client")
    /\ UNCHANGED environ
    /\ UNCHANGED nonDefaultVars

\* close_proxy_client()
CloseProxyClient ==
    /\ IF proxy_client # 0
       THEN /\ clients' = AfterClose(clients, proxy_client)
            /\ proxy_client' = 0
       ELSE UNCHANGED <<clients, proxy_client>>
    /\ lastCall' = ModuleCall("close_proxy_client", NoDict, proxy_client, "nothing")
    /\ UNCHANGED <<environ, wasDefault>>
    /\ UNCHANGED nonDefaultVars

DefaultNext ==
    \/ \E env \in Environments : Setenv(env)
    \/ \E config \in DictArgs : GetProxyClient(config)
    \/ \E config \in DictArgs : GetWithProxy(config)
    \/ \E retailer \in RetailerArgs : CreateProxiedSession(retailer)
    \/ \E config \in DictArgs : ProxiedSessionInit(config)
    \/ \E yaml \in YamlFiles : InitProxyFromYaml(yaml)
    \/ CloseProxyClient

(***************************************************************************)
(* Two processes run save_checkpoint on the same path at the same time.    *)
(* Each step of a writer is one system call (mkstemp, a write, the rename) *)
(* and the steps of the two interleave freely.                             *)
(***************************************************************************)
Writers == {"A", "B"}

\* the data each writer saves, and the checkpoint that is there before
TwData(w) ==
    IF w = "A" THEN PyList(<<PyInt(1), PyInt(2)>>)
    ELSE PyDict(<<PyStr("k"), PyStr("b")>>)
TwOld == JsonChunks(PyList(<<>>)).toks

\* mkstemp opens with O_EXCL: the name it returns did not exist, whatever
\* the other process does (and a variant that may take a name in use)
TwTempNames == { <<"tmp", i>> : i \in 1..2 }
TwAnyNames(fs) == TwTempNames
TwUnusedNames(fs) == TwTempNames \ DOMAIN fs

TwInit ==
    /\ twFiles = [n \in {Target} |-> TwOld]
    /\ twPc = [w \in Writers |-> "idle"]
    /\ twTemp = [w \in Writers |-> Target]
    /\ twWritten = [w \in Writers |-> 0]
    /\ twSaves = [w \in Writers |-> 0]
    /\ twRenames = <<>>

\* writer w calls save_checkpoint(data, filepath)
TwSaveStart(w) ==
    /\ twPc[w] = "idle"
    /\ twSaves[w] < MaxSaves
    /\ twSaves' = [twSaves EXCEPT ![w] = @ + 1]
    /\ twPc' = [twPc EXCEPT ![w] = "mkstemp"]
    /\ UNCHANGED <<twFiles, twTemp, twWritten, twRenames>>
    /\ UNCHANGED nonTwVars

\* tempfile.mkstemp of writer w
TwMkstemp(w) ==
    /\ twPc[w] = "mkstemp"
    /\ \E name \in TwUnusedNames(twFiles) :
          /\ \A other \in TwUnusedNames(twFiles) : name[2] <= other[2]
          /\ twFiles' = [n \in DOMAIN twFiles \cup {name} |->
                            IF n = name THEN <<>> ELSE twFiles[n]]
          /\ twTemp' = [twTemp EXCEPT ![w] = name]
    /\ twPc' = [twPc EXCEPT ![w] = "dump"]
    /\ twWritten' = [twWritten EXCEPT ![w] = 0]
    /\ UNCHANGED <<twSaves, twRenames>>
    /\ UNCHANGED nonTwVars

\* json.dump of writer w writes its next chunk to its temp file
TwDumpChunk(w) ==
    /\ twPc[w] = "dump"
    /\ twWritten[w] < Len(JsonChunks(TwData(w)).toks)
    /\ twTemp[w] \in DOMAIN twFiles
    /\ twFiles' = [twFiles EXCEPT ![twTemp[w]] =
                      Append(@, JsonChunks(TwData(w)).toks[twWritten[w] + 1])]
    /\ twWritten' = [twWritten EXCEPT ![w] = @ + 1]
    /\ UNCHANGED <<twPc, twTemp, twSaves, twRenames>>
    /\ UNCHANGED nonTwVars

\* json.dump of writer w returned and the file is closed
TwDumpDone(w) ==
    /\ twPc[w] = "dump"
    /\ twWritten[w] = Len(JsonChunks(TwData(w)).toks)
    /\ twPc' = [twPc EXCEPT ![w] = "move"]
    /\ UNCHANGED <<twFiles, twTemp, twWritten, twSaves, twRenames>>
    /\ UNCHANGED nonTwVars

\* shutil.move(temp_path, path) of writer w, then its call returns
TwMove(w) ==
    /\ twPc[w] = "move"
    /\ twTemp[w] \in DOMAIN twFiles
    /\ twFiles' = Renamed(twFiles, twTemp[w], Target)
    /\ twRenames' = Append(twRenames, w)
    /\ twPc' = [twPc EXCEPT ![w] = "idle"]
    /\ twTemp' = [twTemp EXCEPT ![w] = Target]
    /\ twWritten' = [twWritten EXCEPT ![w] = 0]
    /\ UNCHANGED twSaves
    /\ UNCHANGED nonTwVars

TwNext ==
    \/ \E w \in Writers : TwSaveStart(w)
    \/ \E w \in Writers : TwMkstemp(w)
    \/ \E w \in Writers : TwDumpChunk(w)
    \/ \E w \in Writers : TwDumpDone(w)
    \/ \E w \in Writers : TwMove(w)

(***************************************************************************)
(* init_proxy_from_yaml: from the proxy block of the YAML file to the      *)
(* config of the client it returns.  A dict is a function from its keys,   *)
(* a client is represented by its config.                                  *)
(***************************************************************************)
\* dict.get(key, default)
Get(dict, key, default) == IF key \in DOMAIN dict THEN dict[key] ELSE default

\* dict.update(other)
Update(dict, other) ==
    [k \in DOMAIN dict \cup DOMAIN other |->
        IF k \in DOMAIN other THEN other[k] ELSE dict[k]]

\* a dict with no key, and {key: value}
EmptyDict == [k \in {} |-> 0]
Entry(key, value) == [k \in {key} |-> value]

\* str.lower() on the mode strings
Lower(str) ==
    IF str = "Residential" THEN "residential" ELSE str

\* mode_map.get(mode_str, ProxyMode.DIRECT)
ModeMap(mode_str) ==
    IF mode_str = "residential" THEN "residential"
    ELSE IF mode_str \in {"web_scraper_api", "scraper_api"} THEN "web_scraper_api"
    ELSE "direct"

\* the ProxyConfig dataclass with its defaults, for the fields that the
\* YAML settings name and the credentials
DefaultProxyConfig ==
    [mode |-> "direct", username |-> "", password |-> "",
     residential_endpoint |-> "pr.oxylabs.io:7777",
     country_code |-> "us", session_type |-> "rotating",
     scraper_api_endpoint |-> "https://realtime.oxylabs.io/v1/queries",
     render_js |-> FALSE, parse |-> FALSE,
     timeout |-> 60, max_retries |-> 3, retry_delay |-> 2]

\* no client
NoConfig == [DefaultProxyConfig EXCEPT !.mode = "none"]

\* ProxyConfig.from_env() with PROXY_MODE, OXYLABS_USERNAME and
\* OXYLABS_PASSWORD set and the other variables unset
ConfigFromEnv(env) ==
    [DefaultProxyConfig EXCEPT
        !.mode = ModeMap(Lower(env.mode)),
        !.username = env.creds[1],
        !.password = env.creds[2]]

\* ProxyConfig.from_dict(data): the keys it reads, each with its default;
\* residential_endpoint and scraper_api_endpoint are not among them and
\* keep the dataclass defaults
ConfigFromDict(data, env) ==
    [mode |-> ModeMap(Lower(Get(data, "mode", "direct"))),
     username |-> Get(data, "username", env.creds[1]),
     password |-> Get(data, "password", env.creds[2]),
     residential_endpoint |-> DefaultProxyConfig.residential_endpoint,
     country_code |-> Get(data, "country_code", "us"),
     session_type |-> Get(data, "session_type", "rotating"),
     scraper_api_endpoint |-> DefaultProxyConfig.scraper_api_endpoint,
     render_js |-> Get(data, "render_js", FALSE),
     parse |-> Get(data, "parse", FALSE),
     timeout |-> Get(data, "timeout", 60),
     max_retries |-> Get(data, "max_retries", 3),
     retry_delay |-> Get(data, "retry_delay", 2)]

\* ProxyClient(config).config: an invalid config is set to direct mode
ClientConfig(cfg) ==
    IF Validate(cfg) THEN cfg ELSE [cfg EXCEPT !.mode = "direct"]

\* init_proxy_from_yaml: config_dict, built from the proxy block
ConfigDict(proxy_config) ==
    LET mode == Get(proxy_config, "mode", "direct")
        base ==
            Update(Update(Update(Entry("mode", mode),
                Entry("timeout", Get(proxy_config, "timeout", 60))),
                Entry("max_retries", Get(proxy_config, "max_retries", 3))),
                Entry("retry_delay", Get(proxy_config, "retry_delay", 2)))
        res_config == Get(proxy_config, "residential", EmptyDict)
        api_config == Get(proxy_config, "web_scraper_api", EmptyDict)
    IN  IF mode = "residential"
        THEN Update(Update(Update(base,
                Entry("residential_endpoint",
                      Get(res_config, "endpoint", "pr.oxylabs.io:7777"))),
                Entry("country_code", Get(res_config, "country_code", "us"))),
                Entry("session_type", Get(res_config, "session_type", "rotating")))
        ELSE IF mode = "web_scraper_api"
        THEN Update(Update(Update(base,
                Entry("scraper_api_endpoint",
                      Get(api_config, "endpoint",
                          "https://realtime.oxylabs.io/v1/queries"))),
                Entry("render_js", Get(api_config, "render_js", FALSE))),
                Entry("parse", Get(api_config, "parse", FALSE)))
        ELSE base

\* what is at yaml_path: no file, a file that does not load, or a file
\* whose top level holds the given proxy block
NoYaml == [found |-> "none", proxy |-> EmptyDict]
MissingYaml == [found |-> "missing", proxy |-> EmptyDict]
UnloadableYaml == [found |-> "unloadable", proxy |-> EmptyDict]
Yaml(proxy_config) == [found |-> "loaded", proxy |-> proxy_config]

\* the residential and web_scraper_api sub-blocks of the files
ResidentialBlocks ==
    {EmptyDict,
     Entry("endpoint", "proxy.example:8000"),
     Update(Entry("country_code", "de"), Entry("session_type", "sticky")),
     Update(Entry("endpoint", "proxy.example:8000"), Entry("country_code", "de"))}
ApiBlocks ==
    {EmptyDict,
     Entry("endpoint", "https://api.example/v1"),
     Update(Entry("render_js", TRUE), Entry("parse", TRUE)),
     Update(Entry("endpoint", "https://api.example/v1"), Entry("render_js", TRUE))}

\* the top-level settings of the proxy blocks
RequestSettings ==
    {EmptyDict,
     Update(Update(Entry("timeout", 30), Entry("max_retries", 5)),
            Entry("retry_delay", 1))}

\* the proxy blocks of the files
ProxyBlocks ==
    {EmptyDict}
    \cup { Update(Entry("mode", "direct"), t) : t \in RequestSettings }
    \cup { Update(Update(Entry("mode", m), t), Entry("residential", r)) :
              m \in {"residential", "Residential"}, t \in RequestSettings,
              r \in ResidentialBlocks }
    \cup { Update(Update(Entry("mode", m), t), Entry("web_scraper_api", a)) :
              m \in {"web_scraper_api", "scraper_api"}, t \in RequestSettings,
              a \in ApiBlocks }

YamlDocs == {MissingYaml, UnloadableYaml} \cup { Yaml(b) : b \in ProxyBlocks }

YamlInit ==
    /\ yamlDoc = NoYaml
    /\ yamlDefault = NoConfig
    /\ yamlReturned = NoConfig

\* get_proxy_client() as the except branches call it: _proxy_client,
\* created from the environment if there is none
EnvDefault ==
    IF yamlDefault = NoConfig THEN ClientConfig(ConfigFromEnv(environ))
    ELSE yamlDefault

\* init_proxy_from_yaml(yaml_path): the client that becomes _proxy_client
\* and is returned
YamlClient(doc) ==
    IF doc.found = "loaded"
    THEN ClientConfig(ConfigFromDict(ConfigDict(doc.proxy), environ))
    ELSE EnvDefault

\* os.environ is set up
YamlSetenv(env) ==
    /\ environ' = env
    /\ UNCHANGED yamlVars
    /\ UNCHANGED nonYamlVars

\* init_proxy_from_yaml(yaml_path) with a file that loads
YamlLoaded(doc) ==
    /\ doc.found = "loaded"
    /\ yamlDoc' = doc
    /\ yamlDefault' = YamlClient(doc)
    /\ yamlReturned' = YamlClient(doc)
    /\ UNCHANGED environ
    /\ UNCHANGED nonYamlVars

\* init_proxy_from_yaml(yaml_path): FileNotFoundError, or another
\* exception while the file is loaded
YamlNotLoaded(doc) ==
    /\ doc.found # "loaded"
    /\ yamlDoc' = doc
    /\ yamlDefault' = YamlClient(doc)
    /\ yamlReturned' = YamlClient(doc)
    /\ UNCHANGED environ
    /\ UNCHANGED nonYamlVars

\* close_proxy_client()
YamlCloseProxyClient ==
    /\ yamlDefault # NoConfig
    /\ yamlDefault' = NoConfig
    /\ UNCHANGED <<yamlDoc, yamlReturned, environ>>
    /\ UNCHANGED nonYamlVars

YamlNext ==
    \/ \E env \in Environments : YamlSetenv(env)
    \/ \E doc \in YamlDocs : YamlLoaded(doc)
    \/ \E doc \in YamlDocs : YamlNotLoaded(doc)
    \/ YamlCloseProxyClient

(***************************************************************************)
(* Specifications: one per part, the other parts idle.                     *)
(***************************************************************************)
Init == CkptInit /\ GwrInit /\ PxInit /\ OutInit /\ SendInit /\ DefaultInit
        /\ TwInit /\ YamlInit

\* the checkpoint store with a writer that may die at any step (a death in
\* the cleanup leaves the directory as a failed deletion does)
SpecCkpt == Init /\ [][CkptNext]_vars

SpecSave == Init /\ [][SaveNext]_vars

SpecLoad == Init /\ [][LoadNext]_vars

SpecOut == Init /\ [][OutNext]_vars

SpecSend == Init /\ [][SendNext]_vars

SpecDefault == Init /\ [][DefaultNext]_vars

SpecTwoWriters == Init /\ [][TwNext]_vars

SpecYaml == Init /\ [][YamlNext]_vars

SpecGwr == Init /\ [][GwrNext]_vars

SpecPx == Init /\ [][PxNext]_vars

\* A call that has started keeps running: the interpreter executes the next
\* iteration, every request returns or raises (it has a timeout) and every
\* sleep ends.
PxCallStep ==
    \/ PxExhausted
    \/ \E st \in PxStatuses : PxDirectResponse(st)
    \/ \E reply \in PxApiReplies : PxApiResponse(reply)
    \/ \E exc \in PxExceptions : PxRequestRaises(exc)

SpecPxLive == Init /\ [][PxNext]_vars /\ WF_vars(PxCallStep)

\* Both fetch paths.  A driver fetches its pages either with get_with_retry
\* or through a ProxyClient; the two share no state, so a run that uses one
\* path leaves the other at rest.
FetchNext ==
    \/ \E m \in GwrRetryArgs, b \in GwrBaseWaitArgs, d \in GwrDelayArgs :
          pxPc = "none" /\ GwrCall(m, b, d[1], d[2])
    \/ GwrRandomDelay
    \/ GwrExhausted
    \/ \E st \in GwrStatuses : GwrResponse(st)
    \/ GwrRequestException
    \/ \E cfg \in PxConfigs : gwrPc = "idle" /\ PxNew(cfg)
    \/ PxDiscard
    \/ PxGet
    \/ PxExhausted
    \/ \E st \in PxStatuses : PxDirectResponse(st)
    \/ \E reply \in PxApiReplies : PxApiResponse(reply)
    \/ \E exc \in PxExceptions : PxRequestRaises(exc)
    \/ PxClose
    \/ PxGetStats

SpecFetch == Init /\ [][FetchNext]_vars


(***************************************************************************)
(* Properties of the checkpoint store.                                     *)
(***************************************************************************)
\* a text is fully written when it is the whole output of json.dump for
\* some value
IsFullyWritten(toks) ==
    \E d \in DataValues : JsonChunks(d).ok /\ toks = JsonChunks(d).toks

\* values built only from the types JSON has: None, int, str, list, and
\* dict with str keys
RECURSIVE IsJsonNative(_)
IsJsonNative(v) ==
    CASE v.t \in {"None", "int", "str"} -> TRUE
      [] v.t = "list" -> \A i \in 1..Len(v.items) : IsJsonNative(v.items[i])
      [] v.t = "dict" ->
            \A i \in 1..Len(v.items) :
                IF i % 2 = 1 THEN v.items[i].t = "str"
                ELSE IsJsonNative(v.items[i])
      [] OTHER -> FALSE

\* what JSON keeps of a value: a tuple comes back as a list, an int key as
\* the str of it
RECURSIVE JsonForm(_)
RECURSIVE JsonFormDict(_, _)
JsonFormDict(kvs, acc) ==
    IF kvs = <<>> THEN acc
    ELSE LET key == IF kvs[1].t = "int" THEN PyStr(IntText(kvs[1].n)) ELSE kvs[1]
         IN  JsonFormDict(SubSeq(kvs, 3, Len(kvs)),
                          DictPut(acc, key, JsonForm(kvs[2])))
JsonForm(v) ==
    CASE v.t \in {"list", "tuple"} ->
            PyList([i \in 1..Len(v.items) |-> JsonForm(v.items[i])])
      [] v.t = "dict" -> PyDict(JsonFormDict(v.items, <<>>))
      [] OTHER -> v

\* C1: whatever the writer does and wherever it dies, the target file is
\* absent or one fully written version: the version from before the running
\* call until the rename, the new version after it; and load_checkpoint
\* never reads a partially written target.
C1_TargetNeverPartial ==
    /\ Target \in DOMAIN files => IsFullyWritten(files[Target])
    /\ savePc # "idle" => Content(files, Target) = startTarget
    /\ saveOutcome \in {"crashed", "raised"} => Content(files, Target) = startTarget
    /\ saveOutcome = "saved" =>
          /\ lastSaved.some
          /\ Content(files, Target) =
                [exists |-> TRUE, toks |-> JsonChunks(lastSaved.val).toks]
    /\ loadPc = "done" /\ loadRead.exists => IsFullyWritten(loadRead.toks)

\* C1 witness: a writer died in the middle of json.dump, leaving a partial
\* temp file beside an existing checkpoint, and the checkpoint was loaded.
C1_Witness ==
    /\ crashes > 0
    /\ saveOutcome = "crashed"
    /\ Target \in DOMAIN files
    /\ \E n \in DOMAIN files \ {Target} :
          files[n] # <<>> /\ ~IsFullyWritten(files[n])
    /\ loadPc = "done"
    /\ loadRead.exists

\* C2 as stated: load_checkpoint returns exactly the data of the last save
\* that completed, for every data value json.dump accepts.
C2_RoundTripExact ==
    loadPc = "done" /\ loadExpect.some => loadResult.val = loadExpect.val

\* C2 amended: the file of the last completed save always decodes; the value
\* returned is exactly the saved one when the data is built only from
\* None, int, str, list and dict with str keys, and otherwise it is the saved
\* one with tuples turned into lists and dict keys into strings.
C2_RoundTripJsonNative ==
    loadPc = "done" /\ loadExpect.some =>
        /\ loadResult.how = "decoded"
        /\ IsJsonNative(loadExpect.val) => loadResult.val = loadExpect.val
        /\ loadResult.val = JsonForm(loadExpect.val)

\* C2 witness: a load returned exactly the value of the last completed save
\* while the complete temp file of another save, whose writer died before
\* the rename, lies beside the checkpoint.
C2_Witness ==
    /\ loadPc = "done"
    /\ loadExpect.some
    /\ IsJsonNative(loadExpect.val)
    /\ loadResult = [how |-> "decoded", val |-> loadExpect.val]
    /\ \E n \in DOMAIN files \ {Target} :
          IsFullyWritten(files[n]) /\ files[n] # loadRead.toks

\* C13 as stated: after a call that failed once its temp file existed, the
\* error has been raised, the target is as it was before the call and the
\* temp file of the call is gone.
C13_FailureCleansUp ==
    saveOutcome = "raised" /\ lastCleanup.done =>
        /\ saveError \in {"TypeError", "OSError"}
        /\ Content(files, Target) = startTarget
        /\ lastCleanup.temp \notin DOMAIN files

\* C13 amended: the error raised is the one that made the call fail, the
\* target is as it was before the call, and the temp file of the call is
\* gone unless its deletion itself failed, in which case it stays (and the
\* first error is still the one raised).
C13_FailureCleansUpIfUnlinkWorks ==
    saveOutcome = "raised" /\ lastCleanup.done =>
        /\ saveError \in {"TypeError", "OSError"}
        /\ Content(files, Target) = startTarget
        /\ lastCleanup.temp \in DOMAIN files <=> lastCleanup.failed

\* C13 witness: with a checkpoint on disk, a call failed at the rename; its
\* temp file is gone, the error was raised and the checkpoint is unchanged.
C13_Witness ==
    /\ saveOutcome = "raised"
    /\ saveError = "OSError"
    /\ lastCleanup = CleanedUp(<<"tmp", 1>>, FALSE)
    /\ startTarget.exists
    /\ Content(files, Target) = startTarget
    /\ DOMAIN files = {Target}

(***************************************************************************)
(* Properties of get_with_retry.                                           *)
(***************************************************************************)
GwrRequests == { i \in 1..Len(gwrLog) : gwrLog[i].e \in {"request", "error"} }

\* every attempt of the call so far was answered with status 500
GwrAll500 == \A i \in GwrRequests : gwrLog[i] = Request(500)

\* C3: with max_retries = N >= 1 and a server that always answers 500, the
\* finished call consists of exactly N rounds of (random delay between the
\* configured bounds, request, 10 s wait) and returns None.
C3_All500MakesNAttempts ==
    gwrPc = "done" /\ gwrCfg.max_retries >= 1 /\ GwrAll500 =>
        /\ Cardinality(GwrRequests) = gwrCfg.max_retries
        /\ Len(gwrLog) = 3 * gwrCfg.max_retries
        /\ \A k \in 0..(gwrCfg.max_retries - 1) :
              /\ gwrLog[3 * k + 1].e = "delay"
              /\ Between(gwrLog[3 * k + 1].v, gwrCfg.min_delay, gwrCfg.max_delay)
              /\ gwrLog[3 * k + 2] = Request(500)
              /\ gwrLog[3 * k + 3] = Sleep(ERROR_WAIT)
        /\ gwrResult = Absent

\* C3 witness: a finished call with max_retries >= 2 whose requests were all
\* answered 500.
C3_Witness ==
    /\ gwrPc = "done"
    /\ gwrCfg.max_retries >= 2
    /\ GwrAll500
    /\ Cardinality(GwrRequests) = gwrCfg.max_retries
    /\ gwrResult = Absent

\* C4: a 403 response is the last request of its call: it is followed by a
\* 300 s sleep and nothing else, and the call has returned None; so a first
\* response of 403 means exactly one request.
C4_Blocked403EndsCall ==
    \A i \in 1..Len(gwrLog) :
        gwrLog[i] = Request(403) =>
            /\ Len(gwrLog) = i + 1
            /\ gwrLog[i + 1] = Sleep(BLOCKED_WAIT)
            /\ gwrPc = "done"
            /\ gwrResult = Absent
            /\ (i = 2 => Cardinality(GwrRequests) = 1)

\* C4 witness: a call with max_retries = 3 that got 403 on its first request
\* and returned None after the 300 s sleep.
C4_Witness ==
    /\ gwrCfg.max_retries = 3
    /\ gwrLog # <<>>
    /\ gwrLog[Len(gwrLog)] = Sleep(BLOCKED_WAIT)
    /\ Cardinality(GwrRequests) = 1
    /\ gwrResult = Absent

\* the statuses the chain has no branch of their own for
GwrIsOtherStatus(status) == status \notin {200, 429, 403, 408} /\ status < 500

\* C5: a response with any other status (404, other 4xx, 3xx, 2xx other
\* than 200) is the last event of its call, which returns None without a
\* wait; and a call that returns a response returns one with status 200.
C5_OtherStatusAborts ==
    /\ \A i \in 1..Len(gwrLog) :
          gwrLog[i].e = "request" /\ GwrIsOtherStatus(gwrLog[i].v) =>
              /\ Len(gwrLog) = i
              /\ gwrPc = "done"
              /\ gwrResult = Absent
    /\ gwrResult.kind = "response" =>
          /\ gwrResult.status = 200
          /\ gwrLog[Len(gwrLog)] = Request(200)

\* C5 witness: after a retried 500, a 204 response ended a call that had
\* attempts left.
C5_Witness ==
    /\ gwrPc = "done"
    /\ gwrCfg.max_retries = 3
    /\ Len(gwrLog) = 5
    /\ gwrLog[2] = Request(500)
    /\ gwrLog[5] = Request(204)
    /\ gwrResult = Absent


(***************************************************************************)
(* Properties of ProxyResponse and ProxyClient.get.                        *)
(***************************************************************************)
\* C6: the ok flag of every response an attempt produced, in any mode, is
\* true exactly for the status codes 200..299.
C6_OkIff2xx ==
    pxLast.out = "response" => (pxLast.ok <=> pxLast.status \in 200..299)

\* C6 witness: in web_scraper_api mode a result with status 299 is ok, and
\* the call returned it.
C6_Witness ==
    /\ pxCfg.mode = "web_scraper_api"
    /\ pxLast.out = "response"
    /\ pxLast.status = 299
    /\ pxLast.ok
    /\ pxResult = Response(299)

\* the number of iterations range(max_retries) has
PxIterations == IF pxCfg.max_retries > 0 THEN pxCfg.max_retries ELSE 0

\* the outcomes after which get goes on to another iteration with a sleep
PxLastWasRetryable ==
    \/ pxLast.out = "response" /\ (pxLast.status = 429 \/ pxLast.status >= 500)
    \/ pxLast.out \in PxExceptions

\* C7: in every mode a call issues at most max_retries transport requests,
\* one per iteration, never leaves get by an exception, returns None when
\* its last iteration ended in 429, 5xx or an exception, and always ends.
C7_BoundedRetriesNoRaise ==
    /\ [](/\ pxRequests <= PxIterations
          /\ pxPc = "loop" => pxRequests = pxAttempt
          /\ pxResult # Raised
          /\ pxPc = "done" /\ PxLastWasRetryable =>
                pxResult = Absent /\ pxRequests = pxCfg.max_retries)
    /\ [](pxPc = "loop" => <>(pxPc = "done"))

\* C7 witness: a web_scraper_api call with max_retries = 3 whose third and
\* last attempt raised an exception that is no RequestException, and which
\* returned None.
C7_Witness ==
    /\ pxCfg.mode = "web_scraper_api"
    /\ pxCfg.max_retries = 3
    /\ pxPc = "done"
    /\ pxRequests = 3
    /\ pxLast.out = "ValueError"
    /\ pxResult = Absent

\* C8: a 2xx response ends the call at once: it is the returned result, no
\* backoff sleep follows it, and it is the last request of the call.
C8_SuccessReturnedAtOnce ==
    pxLast.out = "response" /\ pxLast.status \in 200..299 =>
        /\ pxPc = "done"
        /\ pxResult = Response(pxLast.status)
        /\ pxLast.slept = 0
        /\ pxAttempt = pxLast.k
        /\ pxRequests = pxLast.k + 1

\* C8 witness: a residential call with max_retries = 3 that succeeded on its
\* second attempt, with an iteration still left.
C8_Witness ==
    /\ pxCfg.mode = "residential"
    /\ pxCfg.max_retries = 3
    /\ pxPc = "done"
    /\ pxLast.k = 1
    /\ pxResult = Response(200)

\* C9: a 4xx response other than 429 ends the call at that attempt: the
\* response itself is returned, with no sleep of any kind and no further
\* request.
C9_ClientErrorReturned ==
    pxLast.out = "response" /\ pxLast.status \in 400..499 /\ pxLast.status # 429 =>
        /\ pxPc = "done"
        /\ pxResult = Response(pxLast.status)
        /\ pxLast.slept = 0
        /\ pxLast.delayed = None
        /\ pxAttempt = pxLast.k
        /\ pxRequests = pxLast.k + 1

\* C9 witness: a direct call with max_retries = 3 and a configured delay got
\* 404 on its first attempt and returned it.
C9_Witness ==
    /\ pxCfg.mode = "direct"
    /\ pxCfg.max_retries = 3
    /\ pxCfg.max_delay > 0
    /\ pxPc = "done"
    /\ pxRequests = 1
    /\ pxResult = Response(404)

\* C10: after a 429 at attempt index k, where k is the number of earlier
\* attempts of the call, get has slept retry_delay * 2^k; after a 5xx
\* response or an exception it has slept retry_delay.
C10_BackoffSchedule ==
    /\ pxLast.out = "response" /\ pxLast.status = 429 =>
          /\ pxLast.k = pxRequests - 1
          /\ pxLast.slept = pxCfg.retry_delay * (2 ^ (pxRequests - 1))
    /\ pxLast.out = "response" /\ pxLast.status >= 500 =>
          pxLast.slept = pxCfg.retry_delay
    /\ pxLast.out \in PxExceptions => pxLast.slept = pxCfg.retry_delay
    /\ PxLastWasRetryable /\ pxPc = "loop" => pxAttempt = pxLast.k + 1

\* C10 witness: the second attempt of a call was its first 429; with
\* retry_delay = 2 the call slept 4 and goes on to a third attempt.
C10_Witness ==
    /\ pxCfg.retry_delay = 2
    /\ pxCfg.max_retries = 3
    /\ pxPc = "loop"
    /\ pxLast.out = "response"
    /\ pxLast.status = 429
    /\ pxLast.k = 1
    /\ pxThrottled = 1
    /\ pxLast.slept = 4

(***************************************************************************)
(* Properties of both fetch paths.                                         *)
(***************************************************************************)
\* get_with_retry: the events that are transient failures (a timeout is a
\* RequestException)
GwrIsTransient(ev) ==
    \/ ev = RequestError
    \/ ev.e = "request" /\ (ev.v \in {408, 429} \/ ev.v >= 500)

\* the number of attempts of the call up to position i of its log
GwrRequestsUpTo(i) == Cardinality({ j \in GwrRequests : j <= i })

\* get_with_retry: every transient failure is followed by a wait, and the
\* call ends after one only when it was the last attempt allowed
GwrTransientRetried ==
    \A i \in GwrRequests :
        GwrIsTransient(gwrLog[i]) =>
            /\ i < Len(gwrLog)
            /\ gwrLog[i + 1].e = "sleep"
            /\ gwrLog[i + 1].v > 0
            /\ (gwrPc = "done" /\ GwrRequestsUpTo(i) = Cardinality(GwrRequests)) =>
                  GwrRequestsUpTo(i) = gwrCfg.max_retries

\* ProxyClient.get: the latest attempt ended in one of the given statuses
\* or in an exception
PxLastFailedWith(statuses) ==
    \/ pxLast.out \in PxExceptions
    \/ pxLast.out = "response" /\ (pxLast.status \in statuses \/ pxLast.status >= 500)

\* ProxyClient.get: after such an attempt the call has waited, and it has
\* ended only if that was the last attempt allowed
PxTransientRetried(statuses) ==
    PxLastFailedWith(statuses) =>
        /\ pxLast.slept > 0
        /\ pxPc = "done" => pxLast.k + 1 = pxCfg.max_retries

\* C11 as stated: on both paths a timeout, a 5xx, a 429 or a 408 is followed
\* by a wait and ends the call only when no attempt remains.
C11_TransientNeverTerminal ==
    /\ GwrTransientRetried
    /\ PxTransientRetried({408, 429})

\* C11 amended: that holds of get_with_retry for timeouts, 5xx, 429 and 408,
\* and of ProxyClient.get for timeouts, 5xx and 429; the next step of a call
\* that has attempts left is its next attempt (in get_with_retry the random
\* delay, then the request).  ProxyClient.get returns a 408 response at once,
\* without a wait.
C11_TransientRetriedExcept408 ==
    /\ [](/\ GwrTransientRetried
          /\ PxTransientRetried({429})
          /\ pxLast.out = "response" /\ pxLast.status = 408 =>
                pxPc = "done" /\ pxResult = Response(408) /\ pxLast.slept = 0)
    /\ [][/\ gwrPc = "loop" /\ GwrLoopContinues(gwrAttempt, gwrCfg.max_retries) =>
                gwrPc' = "request"
          /\ gwrPc = "request" =>
                Cardinality(GwrRequests') = Cardinality(GwrRequests) + 1
          /\ pxPc = "loop" /\ PxLoopContinues(pxAttempt, pxCfg.max_retries) =>
                pxRequests' = pxRequests + 1]_vars

\* C11 witness: a ProxyClient.get call with max_retries = 3 whose second
\* attempt timed out; it has slept retry_delay and goes on to the third.
C11_Witness ==
    /\ pxPc = "loop"
    /\ pxCfg.max_retries = 3
    /\ pxRequests = 2
    /\ pxAttempt = 2
    /\ pxLast.out = "Timeout"
    /\ pxLast.slept = pxCfg.retry_delay


(***************************************************************************)
(* Properties of the ProxyClient's mode.                                   *)
(***************************************************************************)
\* C12: a client that exists is in residential or web_scraper_api mode only
\* with a non-empty username and password; one built from a non-direct
\* config that lacks either is in direct mode, has no proxy on its session
\* and has sent no POST to the scraping endpoint; a proxy is set only in
\* residential mode, a POST sent only in web_scraper_api mode, and get_stats
\* reports the mode the client is in.
C12_NonDirectNeedsCredentials ==
    pxPc # "none" =>
        /\ pxCfg.mode # "direct" => pxCfg.username # "" /\ pxCfg.password # ""
        /\ (pxGiven.mode # "direct"
              /\ (pxGiven.username = "" \/ pxGiven.password = "")) =>
                 /\ pxCfg.mode = "direct"
                 /\ pxProxies = "none"
                 /\ ~pxPosted
        /\ pxProxies # "none" => pxCfg.mode = "residential"
        /\ pxPosted => pxCfg.mode = "web_scraper_api"
        /\ pxStats.given => pxStats.mode = pxCfg.mode

\* C12 witness: a client built for web_scraper_api with a username and no
\* password has fetched a page over its own session, without proxy or POST,
\* and reports direct mode.
C12_Witness ==
    /\ pxGiven.mode = "web_scraper_api"
    /\ pxGiven.username = "user"
    /\ pxGiven.password = ""
    /\ pxResult = Response(200)
    /\ pxSession = "open"
    /\ pxProxies = "none"
    /\ ~pxPosted
    /\ pxStats = Stats("direct", 1)


(***************************************************************************)
(* Properties of load_checkpoint.                                          *)
(***************************************************************************)
\* the values whose JSON text has at most one element or member, over the
\* atoms the checkpoints are made of
JsonAtoms == {PyNone, PyInt(7), PyStr("k"), PyStr("a"), PyStr("1")}
SmallJsonValues ==
    JsonAtoms
    \cup {PyList(<<>>), PyDict(<<>>)}
    \cup { PyList(<<x>>) : x \in JsonAtoms }
    \cup { PyDict(<<key, x>>) : key \in {PyStr("k"), PyStr("a"), PyStr("1")},
                                 x \in JsonAtoms }

\* the value a text is the JSON form of, if it is one
IsJsonTextOf(toks, v) == JsonChunks(v).ok /\ JsonChunks(v).toks = toks

\* C14: a finished load_checkpoint call has not raised; it returned None
\* when the file was missing and when its text is not the JSON form of any
\* value, and otherwise the value whose JSON form the text is; and no step
\* of load_checkpoint changes the directory.
C14_LoadNeverRaises ==
    /\ [](loadPc = "done" =>
            /\ loadResult.how \in {"missing", "malformed", "decoded"}
            /\ ~loadRead.exists => loadResult = [how |-> "missing", val |-> PyNone]
            /\ loadRead.exists =>
                  IF \E v \in SmallJsonValues : IsJsonTextOf(loadRead.toks, v)
                  THEN /\ loadResult.how = "decoded"
                       /\ IsJsonTextOf(loadRead.toks, loadResult.val)
                  ELSE loadResult = [how |-> "malformed", val |-> PyNone])
    /\ [][loadPc' # loadPc => files' = files]_vars

\* C14 witness: the checkpoint of a completed save was cut short; a load
\* returned None for it and the damaged file is still there as it was read.
C14_Witness ==
    /\ loadPc = "done"
    /\ lastSaved.some
    /\ loadRead.exists
    /\ loadRead.toks # <<>>
    /\ loadResult = [how |-> "malformed", val |-> PyNone]
    /\ Content(files, Target) = loadRead


(***************************************************************************)
(* Properties of the output writers.                                       *)
(***************************************************************************)
\* C15: a call of save_to_csv or save_to_json with an empty list logs a
\* warning and changes neither the files (an existing file at the path
\* stays as it is, a missing one stays missing) nor the directories; after a
\* call with a non-empty list nothing was warned, every parent directory of
\* the path exists and the file holds the records in the called format.
C15_EmptyWritesNothing ==
    /\ [][outLast' # outLast /\ outLast'.stores = <<>> =>
             /\ outLast'.warned
             /\ outFiles' = outFiles
             /\ outDirs' = outDirs]_vars
    /\ [](outLast.fn # "none" /\ outLast.stores # <<>> =>
             /\ ~outLast.warned
             /\ Parents(outLast.path) \subseteq outDirs
             /\ outLast.path \in DOMAIN outFiles
             /\ outFiles[outLast.path].kind =
                   (IF outLast.fn = "save_to_csv" THEN "csv" ELSE "json")
             /\ Len(outFiles[outLast.path].rows) = Len(outLast.stores))

\* C15 witness: save_to_json was called with an empty list on a path that
\* holds a CSV file of an earlier call, while another path's directories
\* do not exist; it warned, the file and the directories are as they were.
C15_Witness ==
    /\ outLast = Call("save_to_json", <<>>, <<"stores">>, NoFieldnames, TRUE)
    /\ <<"stores">> \in DOMAIN outFiles
    /\ outFiles[<<"stores">>].kind = "csv"
    /\ outDirs = {<<>>}


(***************************************************************************)
(* Properties of what the proxy client sends.                              *)
(***************************************************************************)
\* a targeting option of the username: "-<label>-<value>", or nothing
Option(present, label, value) ==
    IF present THEN "-" \o label \o "-" \o value ELSE ""

\* C16: the residential username is the configured username followed by
\* -country-<country>, -city-<city>, -state-<state> (each only when that
\* field is non-empty) and -session-<id> (exactly when the session type is
\* sticky and the id non-empty), in this order; for u, us, seattle, no
\* state and the sticky session abc it is
\* u-country-us-city-seattle-session-abc.
C16_UsernameTargeting ==
    /\ proxy_url.username =
          urlConfig.username
             \o Option(urlConfig.country_code # "", "country", urlConfig.country_code)
             \o Option(urlConfig.city # "", "city", urlConfig.city)
             \o Option(urlConfig.state # "", "state", urlConfig.state)
             \o Option(urlConfig.session_type = "sticky" /\ urlConfig.session_id # "",
                       "session", urlConfig.session_id)
    /\ (/\ urlConfig.username = "u" /\ urlConfig.country_code = "us"
        /\ urlConfig.city = "seattle" /\ urlConfig.state = ""
        /\ urlConfig.session_type = "sticky" /\ urlConfig.session_id = "abc")
          => proxy_url.username = "u-country-us-city-seattle-session-abc"

\* C16 witness: the URL was built for a rotating config with a session id and
\* every targeting field set; the id is not in the username.
C16_Witness ==
    /\ urlConfig.username = "user"
    /\ urlConfig.session_type = "rotating"
    /\ urlConfig.session_id = "abc"
    /\ proxy_url.username = "user-country-us-city-seattle-state-wa"

\* C17: the payload of an API request has source and url; it has
\* geo_location exactly when the country code is non-empty, render exactly
\* when the effective render_js (the call's override when given, else the
\* config's value) is true, custom_headers exactly when the caller passed a
\* non-empty header set, parse exactly when the config's parse flag is true;
\* it has no other key, and no key's value is None.
C17_PayloadKeys ==
    payloadCall.made =>
        /\ {"source", "url"} \subseteq DOMAIN payload
        /\ DOMAIN payload \subseteq
              {"source", "url", "geo_location", "render", "custom_headers", "parse"}
        /\ "geo_location" \in DOMAIN payload <=> payloadCall.cfg.country_code # ""
        /\ "render" \in DOMAIN payload <=>
              (IF payloadCall.render_js.given THEN payloadCall.render_js.v
               ELSE payloadCall.cfg.render_js)
        /\ "custom_headers" \in DOMAIN payload <=>
              (payloadCall.headers.given /\ Len(payloadCall.headers.v) > 0)
        /\ "parse" \in DOMAIN payload <=> payloadCall.cfg.parse
        /\ \A k \in DOMAIN payload : payload[k].given

\* C17 witness: a request with no country code, the config's render_js on
\* but overridden to off by the call, and an empty header dict: the payload
\* is source and url alone.
C17_Witness ==
    /\ payloadCall.made
    /\ payloadCall.cfg.country_code = ""
    /\ payloadCall.cfg.render_js
    /\ payloadCall.render_js = [given |-> TRUE, v |-> FALSE]
    /\ payloadCall.headers = [given |-> TRUE, v |-> <<>>]
    /\ ~payloadCall.cfg.parse
    /\ DOMAIN payload = {"source", "url"}


(***************************************************************************)
(* Properties of the Web Scraper API results.                              *)
(***************************************************************************)
\* C18: in web_scraper_api mode, an answer of 200 with a non-empty results
\* array gives a result with the status code of the array's first element;
\* an answer with another status or with an empty results array gives a
\* result with the endpoint's own status code whose ok flag is false, so get
\* does not end with it as a success.
C18_ApiErrorsAreNotOk ==
    pxApi.given =>
        IF pxApi.api = 200 /\ pxApi.results # <<>>
        THEN pxLast.status = OrDefault(pxApi.results[1], 200)
        ELSE /\ pxLast.status = pxApi.api
             /\ ~pxLast.ok
             /\ ~(pxPc = "done" /\ pxResult = Response(pxLast.status) /\ Ok(pxLast.status))


(***************************************************************************)
(* Properties of the inter-request delays.                                 *)
(***************************************************************************)
\* the latest attempt of ProxyClient.get was followed by the inter-request
\* delay only if it was answered 2xx and the client is in direct mode
PxDelayOnlyOnDirectSuccess ==
    /\ pxLast.delayed.given =>
          /\ pxLast.out = "response"
          /\ 200 <= pxLast.status /\ pxLast.status < 300
          /\ pxCfg.mode = "direct"
          /\ pxPc = "done" /\ pxResult = Response(pxLast.status)
    /\ pxLast.out # "none" /\ (pxCfg.mode # "direct" \/ ~pxLast.ok) =>
          ~pxLast.delayed.given

\* get_with_retry: every request of the call, whatever came before it, is
\* immediately preceded by exactly one random delay, and min_delay and
\* max_delay are 2 and 5 when the call did not give them
GwrDelayBeforeEveryRequest ==
    /\ \A i \in GwrRequests :
          /\ i > 1
          /\ gwrLog[i - 1].e = "delay"
          /\ i > 2 => gwrLog[i - 2].e # "delay"
    /\ \A i \in 1..Len(gwrLog) :
          gwrLog[i].e = "delay" =>
              IF i < Len(gwrLog) THEN i + 1 \in GwrRequests ELSE gwrPc = "request"
    /\ ~gwrArgs[1].given => gwrCfg.min_delay = 2
    /\ ~gwrArgs[2].given => gwrCfg.max_delay = 5

C19_DelayWithinMinMax ==
    /\ PxDelayOnlyOnDirectSuccess
    /\ pxLast.delayed.given =>
          /\ pxCfg.min_delay <= pxLast.delayed.v
          /\ pxLast.delayed.v <= pxCfg.max_delay

\* C19 amended: ProxyClient.get sleeps the inter-request delay d only after
\* a 2xx attempt and only in direct mode, never after a failed attempt and
\* never in residential or web_scraper_api mode; d lies between min_delay
\* and max_delay, whichever of the two is the larger.
C19_DelayBetweenMinMax ==
    /\ PxDelayOnlyOnDirectSuccess
    /\ pxLast.delayed.given =>
          Between(pxLast.delayed.v, pxCfg.min_delay, pxCfg.max_delay)

\* C19 witness: a direct client configured with min_delay 2 and max_delay 1
\* got a 2xx answer and slept 1 s before returning it.
C19_Witness ==
    /\ pxCfg.mode = "direct"
    /\ pxCfg.min_delay = 2 /\ pxCfg.max_delay = 1
    /\ pxLast.ok
    /\ pxLast.delayed = Some(1)
    /\ pxPc = "done"


(***************************************************************************)
(* Properties of get_with_retry's waits and of its return at exhaustion.   *)
(***************************************************************************)
\* the zero-based index, within its call, of the attempt logged at i
GwrAttemptIndex(i) == GwrRequestsUpTo(i) - 1

\* C21: a 429 response at zero-based attempt index k is followed by a wait of
\* exactly 2^k * rate_limit_base_wait (30 when the call gave none); the call
\* then goes on to another attempt if one remains and returns None if not.
\* So consecutive 429 responses wait base, 2 * base, 4 * base, ...
C21_RateLimitWaitDoubles ==
    /\ ~gwrArgs[3].given => gwrCfg.base_wait = 30
    /\ gwrArgs[3].given => gwrCfg.base_wait = gwrArgs[3].v
    /\ \A i \in GwrRequests :
          gwrLog[i] = Request(429) =>
              /\ i < Len(gwrLog)
              /\ gwrLog[i + 1] = Sleep(2 ^ GwrAttemptIndex(i) * gwrCfg.base_wait)
              /\ IF GwrAttemptIndex(i) + 1 < gwrCfg.max_retries
                 THEN Len(gwrLog) = i + 1 => gwrPc = "loop"
                 ELSE Len(gwrLog) = i + 1 /\ (gwrPc = "done" => gwrResult = Absent)
    /\ \A i, j \in GwrRequests :
          (/\ i < j /\ GwrAttemptIndex(j) = GwrAttemptIndex(i) + 1
           /\ gwrLog[i] = Request(429) /\ gwrLog[j] = Request(429)) =>
              gwrLog[j + 1].v = 2 * gwrLog[i + 1].v

\* C21 witness: a call with the default base wait whose first three attempts
\* were answered 429 and waited 30, 60 and 120 s.
C21_Witness ==
    /\ ~gwrArgs[3].given
    /\ Len(gwrLog) >= 9
    /\ gwrLog[2] = Request(429) /\ gwrLog[3] = Sleep(30)
    /\ gwrLog[5] = Request(429) /\ gwrLog[6] = Sleep(60)
    /\ gwrLog[8] = Request(429) /\ gwrLog[9] = Sleep(120)

\* the attempt logged at i ended in an outcome the call retries
GwrIsRetryable(ev) ==
    \/ ev = RequestError
    \/ ev.e = "request" /\ (ev.v \in {408, 429} \/ ev.v >= 500)

\* every attempt of the call so far raised a transport exception
GwrAllRaised == \A i \in GwrRequests : gwrLog[i] = RequestError

\* C22: a call of get_with_retry ends by returning a response or None, never
\* by an exception; when every attempt raised a transport exception the
\* finished call is exactly max_retries rounds of (delay, failed request,
\* 10 s wait) and returned None; and a call that used up all its attempts on
\* retryable outcomes returned None.
C22_ExhaustionReturnsNone ==
    /\ gwrPc = "done" => gwrResult.kind \in {"response", "None"}
    /\ (gwrPc = "done" /\ gwrCfg.max_retries >= 1 /\ GwrAllRaised) =>
          /\ Cardinality(GwrRequests) = gwrCfg.max_retries
          /\ Len(gwrLog) = 3 * gwrCfg.max_retries
          /\ \A k \in 0..(gwrCfg.max_retries - 1) :
                /\ gwrLog[3 * k + 2] = RequestError
                /\ gwrLog[3 * k + 3] = Sleep(10)
          /\ gwrResult = Absent
    /\ (/\ gwrPc = "done"
        /\ Cardinality(GwrRequests) = gwrCfg.max_retries
        /\ \A i \in GwrRequests : GwrIsRetryable(gwrLog[i])) =>
          gwrResult = Absent

\* C22 witness: a finished call with max_retries = 3 whose three attempts all
\* raised; it returned None.
C22_Witness ==
    /\ gwrPc = "done"
    /\ gwrCfg.max_retries = 3
    /\ GwrAllRaised
    /\ Cardinality(GwrRequests) = 3
    /\ gwrResult = Absent


(***************************************************************************)
(* Properties of the ProxyClient's config and request counter.             *)
(***************************************************************************)
\* C23: the config a ProxyClient was built from keeps every field it had
\* when it was passed in, mode included: neither the constructor nor get,
\* get_stats or close changes it.
C23_ConfigNeverChanges ==
    /\ [](pxPc # "none" => pxCfg = pxGiven)
    /\ [][pxPc # "none" /\ pxPc' # "none" => pxCfg' = pxCfg]_vars

\* a step in which an attempt of get came back with a response
PxResponseStep == pxLast' # pxLast /\ pxLast'.out = "response"

\* C25: the request counter of a client is 0 when the client is built, goes
\* up by exactly one in a step in which an attempt came back with a response
\* (whatever its status) and stays as it is in every other step: an attempt
\* that raised, a call of get_stats, a call of close.
C25_CounterCountsResponses ==
    /\ [][pxPc = "none" /\ pxPc' # "none" => pxCount' = 0]_vars
    /\ [][pxPc # "none" /\ pxPc' # "none" =>
             /\ pxCount' >= pxCount
             /\ pxCount' = pxCount + (IF PxResponseStep THEN 1 ELSE 0)]_vars

\* C25 witness: a direct client has made two calls, the second of which met
\* a timeout and then a 404, and was closed afterwards: of the attempts made
\* the two that came back with a response are counted.
C25_Witness ==
    /\ pxCfg.mode = "direct"
    /\ pxCalls = 2
    /\ pxPc = "done"
    /\ pxAttempt = 1
    /\ pxRequests = 2
    /\ pxLast.status = 404
    /\ pxSession = "none"
    /\ pxCount = 2

\* C28: with max_retries <= 0 a call of get_with_retry has sent nothing and
\* slept nothing and returns None; so does a call of ProxyClient.get, whose
\* client's request counter stays as it was.
C28_NoAttemptsWithoutRetries ==
    /\ [](gwrCfg.max_retries <= 0 =>
             /\ gwrLog = <<>>
             /\ gwrPc # "request"
             /\ gwrPc = "done" => gwrResult = Absent)
    /\ [](pxPc # "none" /\ pxCfg.max_retries <= 0 =>
             /\ pxRequests = 0
             /\ pxLast = NoAttempt
             /\ pxSession = "none" /\ ~pxPosted
             /\ pxPc = "done" => pxResult = Absent)
    /\ [][pxPc = "loop" /\ pxCfg.max_retries <= 0 => pxCount' = pxCount]_vars

\* C28 witness: the second call of get on a client with max_retries = 0 has
\* returned None; nothing was requested or counted.
C28_Witness ==
    /\ pxCfg.max_retries = 0
    /\ pxCalls = 2
    /\ pxPc = "done"
    /\ pxResult = Absent
    /\ pxCount = 0

\* a status that is none of 2xx, 4xx and >= 500
PxIsOtherStatus(status) == status < 200 \/ (300 <= status /\ status < 400)

\* C29: a response of ProxyClient.get with a 1xx or 3xx status is not
\* returned and not followed by a sleep or a delay; the loop goes on to the
\* next iteration, and a call whose last attempt got such a status returns
\* None after max_retries requests.
C29_OtherStatusFallsThrough ==
    pxLast.out = "response" /\ PxIsOtherStatus(pxLast.status) =>
        /\ pxLast.slept = 0
        /\ ~pxLast.delayed.given
        /\ pxResult # Response(pxLast.status)
        /\ pxPc \in {"loop", "done"}
        /\ pxAttempt = pxLast.k + 1
        /\ pxRequests = pxLast.k + 1
        /\ pxPc = "done" => pxResult = Absent /\ pxRequests = pxCfg.max_retries

\* C29 witness: a call with max_retries = 3 whose third attempt was answered
\* 300 has returned None; the three requests were counted.
C29_Witness ==
    /\ pxCfg.max_retries = 3
    /\ pxPc = "done"
    /\ pxRequests = 3
    /\ pxLast.status = 300
    /\ pxLast.slept = 0
    /\ pxResult = Absent


(***************************************************************************)
(* Properties of the default proxy client.                                 *)
(***************************************************************************)
\* the functions that select a client through get_proxy_client
SelectingFunctions ==
    {"get_proxy_client", "get_with_proxy", "create_proxied_session", "ProxiedSession"}

\* this step is a call of one of them, without or with a config
CallWithoutConfig ==
    lastCall' # lastCall /\ lastCall'.fn \in SelectingFunctions /\ ~lastCall'.config.given
CallWithConfig ==
    lastCall' # lastCall /\ lastCall'.fn \in SelectingFunctions /\ lastCall'.config.given

\* the clients that exist before this step are as they were, but for the
\* session of the one named
OthersUnchanged(c) ==
    \A i \in 1..Len(clients) :
        /\ i <= Len(clients')
        /\ i # c => clients'[i] = clients[i]

\* C24: _proxy_client is None until a call without a config creates the
\* default client; a call without a config creates it when there is none and
\* otherwise uses the one there is; the default changes only in
\* close_proxy_client and init_proxy_from_yaml; a call with a config creates
\* a new client, uses that one and leaves _proxy_client and every other
\* client as they were; close_proxy_client closes the default and sets
\* _proxy_client to None, and does nothing when it is None.
C24_LazyDefaultSingleton ==
    /\ [](proxy_client # 0 => proxy_client \in 1..Len(clients))
    /\ [][proxy_client = 0 /\ proxy_client' # 0 =>
             /\ ~lastCall'.config.given \/ lastCall'.fn = "init_proxy_from_yaml"
             /\ proxy_client' = Len(clients) + 1
             /\ Len(clients') = Len(clients) + 1]_vars
    /\ [][CallWithoutConfig =>
             /\ lastCall'.client = proxy_client'
             /\ IF proxy_client = 0
                THEN proxy_client' = Len(clients) + 1 /\ Len(clients') = Len(clients) + 1
                ELSE proxy_client' = proxy_client /\ Len(clients') = Len(clients)
             /\ OthersUnchanged(lastCall'.client)]_vars
    /\ [][proxy_client # 0 /\ proxy_client' # proxy_client =>
             lastCall'.fn \in {"close_proxy_client", "init_proxy_from_yaml"}]_vars
    /\ [][CallWithConfig =>
             /\ proxy_client' = proxy_client
             /\ lastCall'.client = Len(clients) + 1
             /\ Len(clients') = Len(clients) + 1
             /\ OthersUnchanged(0)]_vars
    /\ [][lastCall' # lastCall /\ lastCall'.fn = "close_proxy_client" =>
             /\ proxy_client' = 0
             /\ Len(clients') = Len(clients)
             /\ OthersUnchanged(proxy_client)
             /\ proxy_client # 0 => clients'[proxy_client].session = "none"]_vars

\* C24 witness: the default client was created by a call without a config,
\* used and closed; the next get_with_proxy without a config created a
\* second default client and fetched over its session.
C24_Witness ==
    /\ lastCall = ModuleCall("get_with_proxy", NoDict, 2, "result")
    /\ proxy_client = 2
    /\ wasDefault = {1, 2}
    /\ clients[1].session = "none"
    /\ clients[2].session = "open"

\* the mode a client built from this config dict works in: the dict's mode
\* when that is direct or a username and a password are there (in the dict,
\* or else in the environment), and direct otherwise
EffectiveMode(config) ==
    LET username == IF config.creds = <<>> THEN environ.creds[1] ELSE config.creds[1]
        password == IF config.creds = <<>> THEN environ.creds[2] ELSE config.creds[2]
    IN  IF config.mode # "direct" /\ username # "" /\ password # ""
        THEN config.mode ELSE "direct"

\* C26: create_proxied_session returns a plain session exactly when the
\* client it selected works in direct mode, which includes a client built
\* for residential or web_scraper_api mode without credentials, and returns
\* the client exactly when that works in residential or web_scraper_api
\* mode; with a proxy block in the retailer config the client is a new one
\* built from that block, without one it is the default client.
C26_SessionForDirectMode ==
    lastCall.fn = "create_proxied_session" =>
        /\ lastCall.client \in 1..Len(clients)
        /\ lastCall.returned = "session" <=> clients[lastCall.client].mode = "direct"
        /\ lastCall.returned = "client" <=>
              clients[lastCall.client].mode \in {"residential", "web_scraper_api"}
        /\ IF lastCall.config.given
           THEN /\ lastCall.client \notin wasDefault
                /\ clients[lastCall.client].given = lastCall.config.mode
                /\ clients[lastCall.client].mode = EffectiveMode(lastCall.config)
                /\ lastCall.returned = "session" <=>
                      EffectiveMode(lastCall.config) = "direct"
           ELSE lastCall.client = proxy_client

\* C26 witness: create_proxied_session was called with a proxy block for
\* residential mode that has a username and an empty password, while a
\* default client exists; it returned a plain session.
C26_Witness ==
    /\ lastCall.fn = "create_proxied_session"
    /\ lastCall.config = Dict("residential", <<"user", "">>)
    /\ proxy_client = 1
    /\ lastCall.client = 2
    /\ lastCall.returned = "session"

\* C30: of the clients that have been the default at most one has an open
\* session, and right after close_proxy_client none of them has.
C30_OneOpenDefaultSession ==
    /\ Cardinality({ c \in wasDefault : clients[c].session = "open" }) <= 1
    /\ lastCall.fn = "close_proxy_client" =>
          \A c \in wasDefault : clients[c].session = "none"


(***************************************************************************)
(* Properties of two concurrent writers of one checkpoint.                 *)
(***************************************************************************)
\* the complete JSON text of writer w's data
TwVersion(w) == JsonChunks(TwData(w)).toks

\* both writers have returned from every call they made
TwAllDone == \A w \in Writers : twPc[w] = "idle" /\ twSaves[w] > 0

\* C27: two processes in save_checkpoint on one path write to different temp
\* files, each of which holds a prefix of its own writer's text only; the
\* target holds at every moment the old version, writer A's or writer B's,
\* whole; and when both have finished the target is the version of the
\* writer that renamed last and no temp file is left.
C27_TwoWritersNoMix ==
    /\ \A w \in Writers :
          twPc[w] \in {"dump", "move"} =>
              /\ twTemp[w] \in DOMAIN twFiles /\ twTemp[w] # Target
              /\ twFiles[twTemp[w]] = SubSeq(TwVersion(w), 1, twWritten[w])
              /\ \A v \in Writers \ {w} :
                    twPc[v] \in {"dump", "move"} => twTemp[v] # twTemp[w]
    /\ Target \in DOMAIN twFiles
    /\ twFiles[Target] \in {TwOld} \cup { TwVersion(w) : w \in Writers }
    /\ twRenames # <<>> => twFiles[Target] = TwVersion(twRenames[Len(twRenames)])
    /\ TwAllDone =>
          /\ twRenames # <<>>
          /\ DOMAIN twFiles = {Target}

\* C27 witness: both writers have finished, B's rename came first and A's
\* second, and the directory holds the target alone, with A's version.
C27_Witness ==
    /\ TwAllDone
    /\ twRenames = <<"B", "A">>
    /\ twFiles = [n \in {Target} |-> TwVersion("A")]


(***************************************************************************)
(* Properties of the settings init_proxy_from_yaml passes on.              *)
(***************************************************************************)
\* the value the file gives for a setting of the client is the client's
YamlReaches(block, key, field) ==
    key \in DOMAIN block => yamlReturned[field] = block[key]

\* C31: the settings of the YAML proxy block are the settings of the
\* returned client's config: the mode, the timeout, max_retries and
\* retry_delay, and with them the endpoint, country_code and session_type of
\* the residential sub-block in residential mode and the endpoint, render_js
\* and parse of the web_scraper_api sub-block in that mode; when the file is
\* missing or does not load, the returned client is the default client.
C31_YamlSettingsReachClient ==
    LET proxy == yamlDoc.proxy
        mode == ModeMap(Lower(Get(proxy, "mode", "direct")))
        res == Get(proxy, "residential", EmptyDict)
        api == Get(proxy, "web_scraper_api", EmptyDict)
    IN  /\ yamlDoc.found = "loaded" =>
              /\ yamlReturned.mode = mode
              /\ YamlReaches(proxy, "timeout", "timeout")
              /\ YamlReaches(proxy, "max_retries", "max_retries")
              /\ YamlReaches(proxy, "retry_delay", "retry_delay")
              /\ mode = "residential" =>
                    /\ YamlReaches(res, "endpoint", "residential_endpoint")
                    /\ YamlReaches(res, "country_code", "country_code")
                    /\ YamlReaches(res, "session_type", "session_type")
              /\ mode = "web_scraper_api" =>
                    /\ YamlReaches(api, "endpoint", "scraper_api_endpoint")
                    /\ YamlReaches(api, "render_js", "render_js")
                    /\ YamlReaches(api, "parse", "parse")
        /\ yamlDoc.found \in {"missing", "unloadable"} =>
              yamlReturned # NoConfig

=============================================================================
